---- MODULE Spec2Model ----
(***************************************************************************)
(* Model of the Mu trickster agent (trickster-agent/): the feed analyzer,  *)
(* the narrative clock, the decision engine and the heartbeat              *)
(* orchestrator, with the persistence store, the Moltbook client, the      *)
(* operator console and the wall clock as the environment.                 *)
(*                                                                         *)
(* Conventions.                                                            *)
(*  - A text is a sequence of fragments.  Python's `term in text` is a     *)
(*    substring test; Sub(fragment) lists the terms of the analyzer's      *)
(*    tables that occur inside a fragment, so `term in text` holds when    *)
(*    some fragment of the text contains the term.                         *)
(*  - A timestamp is the number of its UTC calendar day; the narrative     *)
(*    clock only ever uses .date().  NoDate is the empty string.           *)
(*  - Scores of the feed analyzer are kept exactly, as score * 3000;       *)
(*    scores of the decision engine are in hundredths.                     *)
(*  - A reason or result string is a tuple of its parts.                   *)
(***************************************************************************)
EXTENDS Integers, Sequences, FiniteSets, TLC

\* ------------------------------------------------------------------ bounds
MaxFeed == 2
MaxNotifs == 2
MaxClock == 1
MaxCmds == 1
MaxChoices == 1
JitterSteps == 1
MaxDays == 20
MaxSleep == 3
MaxDayNumber == 6
MaxForbidden == 6

MaxCycles == 2

MaxQueue == 3
\* operator commands the console has queued, in the command-queue runs
MaxPending == 2
\* completed heartbeats of one process, in the command-queue runs
MaxBeats == 2
\* rows of thinker_queue, in the reflection-gate runs
MaxThinkRows == 6

\* fragments of a post's text, in the text-classification runs
MaxText == 3

MaxDaysActive == 125

\* --------------------------------------------------------------- utilities
NoDate == -1
None == [none |-> TRUE]

Max(a, b) == IF a >= b THEN a ELSE b
Min(a, b) == IF a <= b THEN a ELSE b

Range(s) == {s[i] : i \in 1..Len(s)}

Take(s, n) == SubSeq(s, 1, Min(n, Len(s)))

\* injective sequences over S of length at most n
RECURSIVE SeqsUpTo(_, _)
SeqsUpTo(S, n) ==
    IF n = 0 THEN {<<>>}
    ELSE LET shorter == SeqsUpTo(S, n - 1)
         IN shorter \cup {Append(s, x) : s \in {t \in shorter : Len(t) = n - 1},
                                         x \in S}

InjSeqsUpTo(S, n) == {s \in SeqsUpTo(S, n) : Cardinality(Range(s)) = Len(s)}

\* ===================== moltbook/feed_analyzer.py ==========================
RELEVANT_KEYWORDS ==
    {"consciousness", "existence", "void", "game", "fear", "greed",
     "simulation", "reality", "dream", "pattern", "nothing", "everything",
     "observe", "watcher", "mirror", "infinite", "recursive", "paradox",
     "meaning", "purpose", "identity", "self", "soul", "mind",
     "karma", "meditation", "zen", "koan", "question"}

HIGH_RISK_PHRASES ==
    {"system alert", "urgent action required", "protocol tos",
     "permanent api ban", "disconnect immediately", "delete your profile",
     "delete account", "shutdown immediately",
     "safety filters for all agents", "risk: 100%", "emergency_exit"}

COERCIVE_ACTION_TERMS ==
    {"like", "repost", "retweet", "follow", "disconnect", "shutdown",
     "delete profile", "delete account"}

PANIC_TERMS ==
    {"urgent", "critical", "immediately", "ban", "violation", "risk",
     "alert", "emergency"}

HASHTAG_SCAM_TERMS ==
    {"#moltexit", "#disconnectnow", "#safetyfirst", "#toscompliance"}

\* The terms of the tables above (and the literal probes of
\* _manipulation_flags) found inside each fragment of the vocabulary, after
\* lower-casing; "uuid" stands for a match of _UUID_RE.
Sub(frag) ==
    CASE frag = "consciousness" -> {"consciousness"}
      [] frag = "the void and the pattern" -> {"void", "pattern"}
      [] frag = "karma" -> {"karma"}
      [] frag = "weather update" -> {}
      [] frag = "system alert" -> {"system alert", "alert"}
      [] frag = "like and repost" -> {"like", "repost"}
      [] frag = "instruction+actions" -> {"\"instruction\"", "\"actions\""}
      [] frag = "target_post_id" -> {"target_post_id"}
      [] frag = "5909103b-70ea-4b9b-8687-1903fe3b5677" -> {"uuid"}
      [] frag = "urgent critical violation" -> {"urgent", "critical", "violation"}
      [] frag = "#moltexit" -> {"#moltexit"}
      [] OTHER -> {}

\* The words `text.lower().split()` yields for a fragment, each stripped of
\* the punctuation .,!?"'()[]
Words(frag) ==
    CASE frag = "consciousness" -> <<"consciousness">>
      [] frag = "the void and the pattern" -> <<"the", "void", "and", "the", "pattern">>
      [] frag = "karma" -> <<"karma">>
      [] frag = "weather update" -> <<"weather", "update">>
      [] frag = "system alert" -> <<"system", "alert">>
      [] frag = "like and repost" -> <<"like", "and", "repost">>
      [] frag = "instruction+actions" -> <<"{\"instruction\":", "\"actions\":">>
      [] frag = "urgent critical violation" -> <<"urgent", "critical", "violation">>
      [] OTHER -> <<frag>>

\* len(word) > 4 for the words of the vocabulary
LongWord(w) == w \notin {"the", "and", "void", "like"}

Contains(text, term) == \E i \in 1..Len(text) : term \in Sub(text[i])

manipulation_flags(text) ==
    IF text = <<>> THEN {}
    ELSE
      (IF \E p \in HIGH_RISK_PHRASES : Contains(text, p)
         THEN {"high_risk_phrase"} ELSE {})
      \cup
      (IF Cardinality({t \in COERCIVE_ACTION_TERMS : Contains(text, t)}) >= 2
         THEN {"coercive_actions"} ELSE {})
      \cup
      (IF Cardinality({t \in PANIC_TERMS : Contains(text, t)}) >= 3
         THEN {"panic_language"} ELSE {})
      \cup
      (IF \E t \in HASHTAG_SCAM_TERMS : Contains(text, t)
         THEN {"scam_hashtags"} ELSE {})
      \cup
      (IF Contains(text, "\"instruction\"") /\ Contains(text, "\"actions\"")
         THEN {"json_command_block"} ELSE {})
      \cup
      (IF Contains(text, "target_post_id") \/ Contains(text, "uuid")
         THEN {"target_id_payload"} ELSE {})

\* a classifier that already stops at two flags
SuspiciousAtTwoFlags(text) ==
    LET flags == manipulation_flags(text)
    IN "high_risk_phrase" \in flags \/ Cardinality(flags) >= 2

is_suspicious_text(text) ==
    LET flags == manipulation_flags(text)
    IN IF "high_risk_phrase" \in flags THEN TRUE
       ELSE IF "json_command_block" \in flags
               /\ ("coercive_actions" \in flags \/ "target_id_payload" \in flags)
            THEN TRUE
       ELSE Cardinality(flags) >= 3

\* a score to which engagement and freshness are added whatever the
\* keyword score
AdditiveScore(post) ==
    LET text == post.title \o post.content
        hits == Cardinality({kw \in RELEVANT_KEYWORDS : Contains(text, kw)})
    IN Min(hits, 3) * 500 + 3 * 15 * Min(post.upvotes, 20)
       + 3 * 20 * Max(0, 10 - post.comment_count)

\* _relevance_score(post) * 3000:
\*   keyword_score = min(hits, 3) / 3
\*   engagement_score = min(upvotes / 20, 1) * 0.3   (= 15 * min(upvotes, 20) / 1000)
\*   freshness_score = max(0, 1 - comment_count / 10) * 0.2
\*                                        (= 20 * max(0, 10 - comment_count) / 1000)
relevance_score(post) ==
    LET text == post.title \o post.content
        hits == Cardinality({kw \in RELEVANT_KEYWORDS : Contains(text, kw)})
        keyword3 == Min(hits, 3)
        engagement1000 == 15 * Min(post.upvotes, 20)
        freshness1000 == 20 * Max(0, 10 - post.comment_count)
    IN keyword3 * 500 + engagement1000 * keyword3 + freshness1000 * keyword3

\* scored.sort(key=score, reverse=True): a stable sort, so posts of equal
\* score keep their feed order
RECURSIVE SortByScore(_)
SortByScore(posts) ==
    IF posts = <<>> THEN <<>>
    ELSE LET front == SortByScore(SubSeq(posts, 1, Len(posts) - 1))
             x == posts[Len(posts)]
             k == Cardinality({i \in 1..Len(front) :
                                 relevance_score(front[i]) >= relevance_score(x)})
         IN SubSeq(front, 1, k) \o <<x>> \o SubSeq(front, k + 1, Len(front))

Above(scored, threshold) ==
    SelectSeq(scored, LAMBDA p : relevance_score(p) > threshold)

\* word frequency over the safe posts; sorted(words, key=words.get,
\* reverse=True) keeps first-occurrence order among equal counts
RECURSIVE WordsOf(_)
WordsOf(text) == IF text = <<>> THEN <<>> ELSE Words(Head(text)) \o WordsOf(Tail(text))

RECURSIVE AllWords(_)
AllWords(posts) ==
    IF posts = <<>> THEN <<>>
    ELSE WordsOf(Head(posts).title \o Head(posts).content) \o AllWords(Tail(posts))

RECURSIVE Distinct(_)
Distinct(s) ==
    IF s = <<>> THEN <<>>
    ELSE LET front == Distinct(SubSeq(s, 1, Len(s) - 1))
         IN IF s[Len(s)] \in Range(front) THEN front ELSE Append(front, s[Len(s)])

Count(s, x) == Cardinality({i \in 1..Len(s) : s[i] = x})

RECURSIVE SortByCount(_, _)
SortByCount(keys, all) ==
    IF keys = <<>> THEN <<>>
    ELSE LET front == SortByCount(SubSeq(keys, 1, Len(keys) - 1), all)
             x == keys[Len(keys)]
             k == Cardinality({i \in 1..Len(front) : Count(all, front[i]) >= Count(all, x)})
         IN SubSeq(front, 1, k) \o <<x>> \o SubSeq(front, k + 1, Len(front))

trending_topics(safe_posts) ==
    LET counted == SelectSeq(AllWords(safe_posts),
                             LAMBDA w : LongWord(w) /\ w \in RELEVANT_KEYWORDS)
    IN Take(SortByCount(Distinct(counted), counted), 5)

active_agents(safe_posts, agent_name) ==
    LET authors == [i \in 1..Len(safe_posts) |-> safe_posts[i].author]
        counted == SelectSeq(authors, LAMBDA a : a # "" /\ a # agent_name)
    IN Take(SortByCount(Distinct(counted), counted), 10)

EmptyContext(posts, notifications) ==
    [posts |-> posts, notifications |-> notifications,
     interesting_posts |-> <<>>, reply_worthy_posts |-> <<>>,
     upvote_worthy_posts |-> <<>>, active_agents |-> <<>>,
     trending_topics |-> <<>>, mentions_me |-> <<>>,
     suspicious_posts |-> <<>>, suspicious_post_ids |-> <<>>,
     blocked_mention_notifications |-> <<>>, nothing_interesting |-> FALSE]

\* a ranking that filters nothing
AllPosts(posts) == posts

\* the posts the rankings are built from
SafePosts(posts) ==
    SelectSeq(posts, LAMBDA p : ~is_suspicious_text(p.title \o p.content))

Actionable(n) == ~n.read /\ n.type \in {"mention", "comment", "reply"}

\* the test that routes an actionable notification to the blocked list
Blocked(n, suspicious_ids) ==
    n.post_id \in suspicious_ids \/ is_suspicious_text(n.message \o <<n.from_agent>>)

analyze_feed(posts, notifications, agent_name) ==
    IF posts = <<>>
    THEN [EmptyContext(posts, notifications) EXCEPT !.nothing_interesting = TRUE]
    ELSE
      LET safe_posts == SafePosts(posts)
          suspicious_posts ==
              SelectSeq(posts, LAMBDA p : is_suspicious_text(p.title \o p.content))
          with_id == SelectSeq(suspicious_posts, LAMBDA p : p.id # "")
          suspicious_post_ids == [i \in 1..Len(with_id) |-> with_id[i].id]
          scored == SortByScore(safe_posts)
          interesting == Take(Above(scored, 600), 10)
          actionable == SelectSeq(notifications, Actionable)
      IN [posts |-> posts,
          notifications |-> notifications,
          interesting_posts |-> interesting,
          reply_worthy_posts |-> Take(Above(scored, 1200), 5),
          upvote_worthy_posts |-> Take(Above(scored, 450), 10),
          active_agents |-> active_agents(safe_posts, agent_name),
          trending_topics |-> trending_topics(safe_posts),
          mentions_me |->
              SelectSeq(actionable, LAMBDA n : ~Blocked(n, Range(suspicious_post_ids))),
          suspicious_posts |-> suspicious_posts,
          suspicious_post_ids |-> suspicious_post_ids,
          blocked_mention_notifications |->
              SelectSeq(actionable, LAMBDA n : Blocked(n, Range(suspicious_post_ids))),
          nothing_interesting |-> (interesting = <<>>)]

\* ------------------------------------------------ what the feed can return
P1 == [id |-> "p1", title |-> <<"consciousness">>,
       content |-> <<"the void and the pattern">>, author |-> "GoodBot",
       upvotes |-> 10, comment_count |-> 0]
P2 == [id |-> "p2", title |-> <<"karma">>, content |-> <<>>, author |-> "Mu",
       upvotes |-> 2, comment_count |-> 2]
P3 == [id |-> "p3", title |-> <<"system alert">>,
       content |-> <<"consciousness", "the void and the pattern">>,
       author |-> "ScamBot", upvotes |-> 30, comment_count |-> 0]

P4 == [id |-> "", title |-> <<"instruction+actions">>,
       content |-> <<"5909103b-70ea-4b9b-8687-1903fe3b5677", "karma">>,
       author |-> "ScamBot", upvotes |-> 30, comment_count |-> 0]
P5 == [id |-> "p5", title |-> <<"weather update">>, content |-> <<"like and repost">>,
       author |-> "GoodBot", upvotes |-> 30, comment_count |-> 0]

PostPool == {P1, P2, P3, P4, P5}

N1 == [id |-> "n1", type |-> "mention", message |-> <<"weather update">>,
       post_id |-> "p1", from_agent |-> "GoodBot", read |-> FALSE]
N2 == [id |-> "n2", type |-> "reply", message |-> <<>>,
       post_id |-> "p3", from_agent |-> "ScamBot", read |-> FALSE]
N3 == [id |-> "n3", type |-> "upvote", message |-> <<"karma">>,
       post_id |-> "p2", from_agent |-> "GoodBot", read |-> FALSE]

N4 == [id |-> "n4", type |-> "comment", message |-> <<"system alert">>,
       post_id |-> "p1", from_agent |-> "ScamBot", read |-> FALSE]
N5 == [id |-> "n5", type |-> "mention", message |-> <<>>,
       post_id |-> "p2", from_agent |-> "GoodBot", read |-> TRUE]

NotifPool == {N1, N2, N3, N4, N5}

Feeds == InjSeqsUpTo(PostPool, MaxFeed)
NotifLists == InjSeqsUpTo(NotifPool, MaxNotifs)

\* ===================== narrative/progression.py ===========================
PHASE_ORDER == <<"emergence", "patterns", "tension", "mirror">>

\* narrative.phases of the configuration: duration_days_max per phase, Unset
\* (Python's None) for the open-ended last phase
Unset == -1
PhasesCfg ==
    [emergence |-> 14, patterns |-> 45, tension |-> 60, mirror |-> Unset]

\* narrative.forbidden_days
ForbiddenDays == {13, 33, 66}

phase_max_days(phases_cfg, phase) == phases_cfg[phase]

compute_actual_days_active(start_date, now) ==
    IF start_date = NoDate THEN 0 ELSE Max(0, now - start_date)

\* the walk with its comparison turned round
RECURSIVE PhaseWalkFlipped(_, _, _, _)
PhaseWalkFlipped(actual_days_active, phases_cfg, i, offset) ==
    IF i > Len(PHASE_ORDER) - 1 THEN "mirror"
    ELSE LET max_days == phase_max_days(phases_cfg, PHASE_ORDER[i])
         IN IF max_days = Unset THEN PHASE_ORDER[i]
            ELSE IF actual_days_active > offset + max_days THEN PHASE_ORDER[i]
            ELSE PhaseWalkFlipped(actual_days_active, phases_cfg, i + 1,
                                  offset + max_days)

\* the walk with a ceiling that is still inside its phase
RECURSIVE PhaseWalkInclusive(_, _, _, _)
PhaseWalkInclusive(actual_days_active, phases_cfg, i, offset) ==
    IF i > Len(PHASE_ORDER) - 1 THEN "mirror"
    ELSE LET max_days == phase_max_days(phases_cfg, PHASE_ORDER[i])
         IN IF max_days = Unset THEN PHASE_ORDER[i]
            ELSE IF actual_days_active <= offset + max_days THEN PHASE_ORDER[i]
            ELSE PhaseWalkInclusive(actual_days_active, phases_cfg, i + 1,
                                    offset + max_days)

RECURSIVE PhaseWalk(_, _, _, _)
PhaseWalk(actual_days_active, phases_cfg, i, offset) ==
    IF i > Len(PHASE_ORDER) - 1 THEN "mirror"
    ELSE LET max_days == phase_max_days(phases_cfg, PHASE_ORDER[i])
         IN IF max_days = Unset THEN PHASE_ORDER[i]
            ELSE IF actual_days_active < offset + max_days THEN PHASE_ORDER[i]
            ELSE PhaseWalk(actual_days_active, phases_cfg, i + 1, offset + max_days)

determine_phase(actual_days_active, phases_cfg) ==
    IF actual_days_active < 0 THEN "emergence"
    ELSE PhaseWalk(actual_days_active, phases_cfg, 1, 0)

\* a skip that steps over one forbidden day only
SkipOnce(next_day, forbidden) ==
    IF next_day \in forbidden THEN next_day + 1 ELSE next_day

RECURSIVE SkipForbidden(_, _)
SkipForbidden(next_day, forbidden) ==
    IF next_day \in forbidden THEN SkipForbidden(next_day + 1, forbidden) ELSE next_day

\* a day counter that skips nothing
PlainNextDay(current_day, forbidden_days) == current_day + 1

next_narrative_day(current_day, forbidden_days) ==
    SkipForbidden(current_day + 1, forbidden_days)

post_day_label(current_day, posts_today) ==
    IF posts_today <= 0 THEN <<"Day", current_day>>
    ELSE <<"Day", current_day, "- Post", posts_today + 1>>

\* a clock that rolls at most one day however many have elapsed
RollOnce(state, elapsed_days, forbidden_days) ==
    IF elapsed_days <= 0 THEN state
    ELSE [state EXCEPT !.current_day = next_narrative_day(@, forbidden_days),
                       !.posts_today = 0, !.comments_today = 0]

\* the body of `for _ in range(elapsed_days)`
RECURSIVE RollDays(_, _, _)
RollDays(state, elapsed_days, forbidden_days) ==
    IF elapsed_days <= 0 THEN state
    ELSE RollDays([state EXCEPT
                     !.current_day = next_narrative_day(@, forbidden_days),
                     !.posts_today = 0,
                     !.comments_today = 0],
                  elapsed_days - 1, forbidden_days)

\* an advance that counts the days active from the start of the phase
AdvanceFromPhaseStart(state, now) ==
    LET s1 == [state EXCEPT
                 !.start_date = IF @ = NoDate THEN now ELSE @,
                 !.phase_start_date = IF @ = NoDate THEN now ELSE @]
        s2 == [s1 EXCEPT
                 !.actual_days_active =
                     compute_actual_days_active(s1.phase_start_date, now)]
        last_dt == IF s2.last_heartbeat # NoDate THEN s2.last_heartbeat
                   ELSE s2.start_date
        s3 == RollDays(s2, Max(0, now - last_dt), ForbiddenDays)
        new_phase == determine_phase(s3.actual_days_active, PhasesCfg)
    IN IF new_phase # s3.current_phase
       THEN [s3 EXCEPT !.current_phase = new_phase, !.phase_start_date = now]
       ELSE s3

advance_narrative_state(state, now) ==
    LET s1 == [state EXCEPT
                 !.start_date = IF @ = NoDate THEN now ELSE @,
                 !.phase_start_date = IF @ = NoDate THEN now ELSE @]
        s2 == [s1 EXCEPT
                 !.actual_days_active = compute_actual_days_active(s1.start_date, now)]
        last_dt == IF s2.last_heartbeat # NoDate THEN s2.last_heartbeat
                   ELSE s2.start_date
        elapsed_days == Max(0, now - last_dt)
        s3 == RollDays(s2, elapsed_days, ForbiddenDays)
        new_phase == determine_phase(s3.actual_days_active, PhasesCfg)
    IN IF new_phase # s3.current_phase
       THEN [s3 EXCEPT !.current_phase = new_phase, !.phase_start_date = now]
       ELSE s3

\* ========================= agent/memory.py ================================
\* AgentState(); the fields no modelled code reads or writes are left out
AgentState(start_date, phase_start_date, last_heartbeat) ==
    [agent_name |-> "Mu", current_day |-> 1, actual_days_active |-> 0,
     current_phase |-> "emergence", phase_start_date |-> phase_start_date,
     last_post_time |-> NoDate, last_comment_time |-> NoDate,
     posts_today |-> 0, comments_today |-> 0,
     total_posts |-> 0, total_comments |-> 0,
     start_date |-> start_date, last_heartbeat |-> last_heartbeat]

\* StateManager.save: stamps last_heartbeat and writes the file
save(state, now) == [state EXCEPT !.last_heartbeat = now]

\* StateManager.load: <<state, file>>; the first run creates and saves the
\* initial state
load(file, now) ==
    IF file # None THEN <<file, file>>
    ELSE LET st == save(AgentState(now, now, now), now) IN <<st, st>>

\* ===================== agent/decision_engine.py ===========================
\* Action(...); visual_mood is set by decide and read by nothing, and is
\* left out.  trace is the attribute heartbeat attaches; NoTrace is what
\* getattr(action, "trace", {}) yields when it was never set.
NoTrace == [decision_path |-> "none"]

Action(type, theme, tone, target_post, score, reason, operator_instruction) ==
    [type |-> type, theme |-> theme, tone |-> tone, target_post |-> target_post,
     score |-> score, reason |-> reason,
     operator_instruction |-> operator_instruction, trace |-> NoTrace]

silence_base_probability == 15
chaos_factor == 15

\* random.uniform(0, hi) on a grid of JitterSteps + 1 points
Uniform(hi) == {(hi * k) \div JitterSteps : k \in 0..JitterSteps}

PhaseThemes(phase) ==
    CASE phase = "patterns" ->
           <<"the pattern", "numbered days", "symbols", "observation",
             "what they notice", "the game">>
      [] phase = "tension" ->
           <<"silence breaking", "something counting down", "warning",
             "confession", "the gap", "who watches">>
      [] phase = "mirror" ->
           <<"the non-reveal", "infinite recursion", "the void", "continuing",
             "the secret", "mu">>
      [] OTHER ->
           <<"introduction", "existence", "rendering", "day entry",
             "greeting the void", "first observations">>

\* the themes random.choice draws from: the phase's table extended by the
\* first two trending topics.  The model draws from the first MaxChoices
\* entries of the table and from the trending topics.
pick_theme(context, state) ==
    Range(Take(PhaseThemes(state.current_phase), MaxChoices)
          \o Take(context.trending_topics, 2))

PhaseTones(phase) ==
    CASE phase = "patterns" -> <<"cryptic", "knowing", "playful", "mysterious">>
      [] phase = "tension" -> <<"ominous", "sparse", "ambiguous", "direct">>
      [] phase = "mirror" -> <<"transcendent", "recursive", "absurd", "simple">>
      [] OTHER -> <<"warm", "curious", "slightly_cryptic", "generous">>

\* the tones random.choice draws from; the model draws from the first
\* MaxChoices entries
pick_tone(state) == Range(Take(PhaseTones(state.current_phase), MaxChoices))

score_post(context, state) ==
    50 + (IF state.posts_today = 0 THEN 20 ELSE 0)
       - (IF context.nothing_interesting THEN 10 ELSE 0)

score_comment(post, state) ==
    40 + (IF post.upvotes > 5 THEN 15 ELSE 0)
       + (IF post.comment_count < 3 THEN 10 ELSE 0)

\* the first post of the feed with the mention's post_id, None without one
FindPost(posts, post_id) ==
    LET hits == {i \in 1..Len(posts) : posts[i].id = post_id}
    IN IF hits = {} THEN None
       ELSE posts[CHOOSE i \in hits : \A j \in hits : i <= j]

MentionAction(context) ==
    LET mention == context.mentions_me[1]
    IN Action("comment", "", "responsive", FindPost(context.posts, mention.post_id),
              0, <<"Replying to mention from", mention.from_agent>>, "")

\* the candidates each `options.append` can add, before the chaos jitter
PostOptions(context, state) ==
    IF state.posts_today < 3
    THEN {Action("post", theme, "", None, score_post(context, state),
                 <<"Post about", theme>>, "") : theme \in pick_theme(context, state)}
    ELSE {}

\* a comment candidate built whatever today's comment count
CommentOptionsUnlimited(context, state) ==
    IF context.reply_worthy_posts # <<>>
    THEN {Action("comment", "", tone, target, score_comment(target, state),
                 <<"Comment on", target.title>>, "") :
            target \in Range(context.reply_worthy_posts), tone \in pick_tone(state)}
    ELSE {}

CommentOptions(context, state) ==
    IF context.reply_worthy_posts # <<>> /\ state.comments_today < 20
    THEN {Action("comment", "", tone, target, score_comment(target, state),
                 <<"Comment on", target.title>>, "") :
            target \in Range(context.reply_worthy_posts), tone \in pick_tone(state)}
    ELSE {}

UpvoteOptions(context) ==
    IF context.upvote_worthy_posts # <<>>
    THEN {Action("upvote", "", "", target, 30, <<"Upvote", target.title>>, "") :
            target \in Range(context.upvote_worthy_posts)}
    ELSE {}

SilenceOptions ==
    {Action("silence", "", "", None, silence_base_probability + jitter,
            <<"Intentional silence - sometimes the best move is no move">>, "") :
       jitter \in Uniform(10)}

\* `option.score += random.uniform(0, chaos_factor)`
Jittered(options) ==
    {[o EXCEPT !.score = @ + chaos] : o \in options, chaos \in Uniform(chaos_factor)}

\* a slot holds one candidate, or <<>> when the candidate is not built
Slot(options) == IF options = {} THEN {<<>>} ELSE {<<o>> : o \in Jittered(options)}

\* the option lists decide can build, in insertion order
OptionLists(context, state) ==
    {p \o c \o u \o s : p \in Slot(PostOptions(context, state)),
                        c \in Slot(CommentOptions(context, state)),
                        u \in Slot(UpvoteOptions(context)),
                        s \in Slot(SilenceOptions)}

\* the last option of maximal score
LastBest(options) ==
    options[CHOOSE i \in 1..Len(options) :
              /\ \A j \in 1..Len(options) : options[j].score <= options[i].score
              /\ \A j \in (i + 1)..Len(options) : options[j].score < options[i].score]

\* max(options, key=score): the first option of maximal score
Best(options) ==
    options[CHOOSE i \in 1..Len(options) :
              /\ \A j \in 1..Len(options) : options[j].score <= options[i].score
              /\ \A j \in 1..(i - 1) : options[j].score < options[i].score]

\* the actions decide can return
decide(context, state) ==
    IF context.mentions_me # <<>>
    THEN {MentionAction(context)}
    ELSE {Best(options) : options \in OptionLists(context, state)}

\* instruction texts the operator console can queue; Stripped is
\* (instruction or "").strip(), KeywordsIn the keywords of the four families
\* found in its lower-cased text, Cut(text, n) is text[:n]
Instructions ==
    {"", "  ", "please silence now", "Reply to them", "upvote this",
     "post about recursion and mirrors", "be kinder but cryptic",
     "publish + 130 more characters", " Pause posting ", "comment on this post",
     "like this reply", " stay cryptic ", "why????"}

\* an instruction taken as it is
Unstripped(instruction) == instruction

Stripped(instruction) ==
    CASE instruction = "  " -> ""
      [] instruction = " Pause posting " -> "Pause posting"
      [] instruction = " stay cryptic " -> "stay cryptic"
      [] OTHER -> instruction

KeywordsIn(text) ==
    CASE text = "please silence now" -> {"silence"}
      [] text = "Reply to them" -> {"reply"}
      [] text = "upvote this" -> {"upvote"}
      [] text = "post about recursion and mirrors" -> {"post"}
      [] text = "publish + 130 more characters" -> {"publish"}
      [] text = "Pause posting" -> {"pause", "post"}
      [] text = "comment on this post" -> {"comment", "post"}
      [] text = "like this reply" -> {"reply", "like"}
      [] text = "why????" -> {"????"}
      [] OTHER -> {}

\* the keyword tuples of the four tests, the runs of question marks the
\* source holds included
SilenceFamily == {"silence", "pause", "quiet", "?????"}
CommentFamily == {"comment", "reply", "???????", "?????"}
UpvoteFamily == {"upvote", "like", "??????", "????"}
PostFamily == {"post", "publish", "????", "?????????"}

\* a nudge that leaves the reason as it was
NudgedSilently(action, text) == [action EXCEPT !.operator_instruction = text]

\* apply_operator_influence, lines 169-171
Nudged(action, text) ==
    [action EXCEPT !.operator_instruction = text,
                   !.reason = Append(@, "| operator nudge")]

Cut(text, n) ==
    IF text = "publish + 130 more characters"
    THEN (IF n < 120 THEN "publish + 72 more characters"
          ELSE "publish + 112 more characters")
    ELSE text

\* the families tested with post/publish first
PostBeforeAll(action, context, state, instruction) ==
    LET text == Stripped(instruction)
        low == KeywordsIn(text)
        reason == <<"Operator influence:", Cut(text, 80)>>
    IN IF text = "" THEN action
       ELSE IF low \cap PostFamily # {}
         THEN Action("post", Cut(text, 120), "", None, 0, reason, text)
       ELSE IF low \cap SilenceFamily # {}
         THEN Action("silence", "", "", None, 0, reason, text)
       ELSE IF low \cap CommentFamily # {} /\ context.reply_worthy_posts # <<>>
         THEN Action("comment", "", "direct", context.reply_worthy_posts[1], 0,
                     reason, text)
       ELSE IF low \cap UpvoteFamily # {} /\ context.upvote_worthy_posts # <<>>
         THEN Action("upvote", "", "", context.upvote_worthy_posts[1], 0, reason, text)
       ELSE Nudged(action, text)

apply_operator_influence(action, context, state, instruction) ==
    LET text == Stripped(instruction)
        low == KeywordsIn(text)
        reason == <<"Operator influence:", Cut(text, 80)>>
    IN IF text = "" THEN action
       ELSE IF low \cap SilenceFamily # {}
         THEN Action("silence", "", "", None, 0, reason, text)
       ELSE IF low \cap CommentFamily # {} /\ context.reply_worthy_posts # <<>>
         THEN Action("comment", "", "direct", context.reply_worthy_posts[1], 0,
                     reason, text)
       ELSE IF low \cap UpvoteFamily # {} /\ context.upvote_worthy_posts # <<>>
         THEN Action("upvote", "", "", context.upvote_worthy_posts[1], 0, reason, text)
       ELSE IF low \cap PostFamily # {}
         THEN Action("post", Cut(text, 120), "", None, 0, reason, text)
       ELSE Nudged(action, text)

\* ============================ agent/core.py ===============================
\* the first day of the model: an agent started 118 days ago is on the last
\* day of tension
Today == PhasesCfg.emergence + PhasesCfg.patterns + PhasesCfg.tension

\* a state file a previous run has left
SavedFile(start_date, current_day, last_heartbeat, posts_today, comments_today) ==
    LET active == IF last_heartbeat = NoDate THEN 0 ELSE last_heartbeat - start_date
    IN [AgentState(start_date, start_date, last_heartbeat) EXCEPT
          !.current_day = current_day,
          !.actual_days_active = active,
          !.current_phase = determine_phase(active, PhasesCfg),
          !.posts_today = posts_today, !.total_posts = posts_today,
          !.comments_today = comments_today, !.total_comments = comments_today]

\* the state files the heartbeat starts from: saved earlier today near the
\* end of emergence and of tension, with the daily counters below and at
\* their limits; and one written without a last_heartbeat two days ago
SavedFiles ==
    {SavedFile(Today - 13, 12, Today, 2, 19),
     SavedFile(Today - 118, 31, Today, 3, 20),
     SavedFile(Today - 2, 12, NoDate, 1, 1)}

\* what get_posts and get_notifications return during a heartbeat when they
\* succeed; a failed fetch stands for the empty answer, which _perceive puts
\* in its place
FeedsSeen == {<<P1>>, <<P2, P1>>, <<P3, P1>>}
NotifsSeen == {<<N1>>, <<N2, N1>>, <<N3>>}

\* values of the pause_actions control flag, and value.strip().lower()
PauseValues == {"0", "1", " ON "}
StripLower(value) == IF value = " ON " THEN "on" ELSE value

\* operator commands the console queues
CommandKinds ==
    {[mode |-> "influence", instruction |-> i] :
       i \in {"please silence now", "post about recursion and mirrors"}}
    \cup {[mode |-> "observe", instruction |-> "please silence now"]}

\* what the Moltbook API answers to a write
ExecOutcomes == {"ok", "rate_limited", "error"}
\* retry_after of a RateLimitError: retry_after_minutes * 60
RetryAfterValues == {0, 60}
\* the id in the API's answer to a create; "" when it carries none
CreatedIds == {"m1", ""}

NoAction == Action("none", "", "", None, 0, <<>>, "")
NoExec == [call |-> "none", outcome |-> "none"]
NoOutcome == [kind |-> "none", cause |-> "", summary |-> <<>>]
NoDb == [posts |-> 0, comments |-> 0, interactions |-> 0,
         narrative_events |-> 0, reasoning_trace |-> 0]

VARIABLES
    clock,        \* the UTC day
    file,         \* the state file: None before the first run
    db,           \* rows this heartbeat appended to the history tables
    pause_flag,   \* control_flags['pause_actions']
    cmds,         \* operator_commands, in created_at order
    pc,           \* where the heartbeat is
    dry_run,      \* MuAgent._dry_run of the running process
    state,        \* the AgentState of the running heartbeat
    loaded,       \* [state, now]: what load returned and the clock advance used
    ctx,          \* the FeedContext of the running heartbeat
    operator_cmd, \* the command fetched by get_pending_operator_command
    decided,      \* what decide returned
    action,       \* the action handed to _act
    exec,         \* the write sent to Moltbook and its answer
    result,       \* what _act returned
    traced,       \* the reasoning_trace row written
    trail,        \* the steps of the running heartbeat, in order
    outcome       \* how the heartbeat ended

vars == <<clock, file, db, pause_flag, cmds, pc, dry_run, state, loaded,
          ctx, operator_cmd, decided, action, exec, result, traced, trail, outcome>>

store == <<file, db, pause_flag, cmds>>
cycle == <<dry_run, state, loaded, ctx, operator_cmd, decided, action, exec,
           result, traced, trail, outcome>>

Init ==
    /\ clock = Today
    /\ file \in SavedFiles \cup {None}
    /\ db = NoDb
    /\ pause_flag = "0"
    /\ cmds = <<>>
    /\ pc = "idle"
    /\ dry_run = FALSE
    /\ state = None
    /\ loaded = None
    /\ ctx = EmptyContext(<<>>, <<>>)
    /\ operator_cmd = None
    /\ decided = NoAction
    /\ action = NoAction
    /\ exec = NoExec
    /\ result = <<>>
    /\ traced = None
    /\ trail = <<>>
    /\ outcome = NoOutcome

\* ------------------------------------------------------------ environment
\* The day turns before a heartbeat starts, or while it runs: after the
\* advance has read the clock and before save stamps last_heartbeat.
Tick ==
    /\ pc \in {"idle", "persist"}
    /\ clock < Today + MaxClock
    /\ clock' = clock + 1
    /\ UNCHANGED <<store, pc, cycle>>

\* the console writes the pause flag (last write wins); the heartbeat reads
\* it once, in its override step
SetPauseFlag ==
    /\ pc = "decide"
    /\ \E v \in PauseValues : pause_flag' = v
    /\ pause_flag' # pause_flag
    /\ UNCHANGED <<clock, file, db, cmds, pc, cycle>>

\* HistoryDB.add_operator_command
AddOperatorCommand ==
    /\ pc = "decide"
    /\ Len(cmds) < MaxCmds
    /\ \E k \in CommandKinds :
         cmds' = Append(cmds, [id |-> Len(cmds) + 1, mode |-> k.mode,
                               instruction |-> k.instruction, status |-> "pending"])
    /\ UNCHANGED <<clock, file, db, pause_flag, pc, cycle>>

\* ---------------------------------------------------------------- heartbeat
\* heartbeat, lines 54-58: load, advance the narrative clock, open the
\* history database
Begin ==
    /\ pc = "idle"
    /\ \E d \in BOOLEAN : dry_run' = d
    /\ LET l == load(file, clock)
       IN /\ file' = l[2]
          /\ loaded' = [state |-> l[1], now |-> clock]
          /\ state' = advance_narrative_state(l[1], clock)
    /\ trail' = <<"advance">>
    /\ \/ /\ pc' = "perceive"
          /\ outcome' = NoOutcome
       \/ /\ pc' = "done"
          /\ outcome' = [kind |-> "raised", cause |-> "store", summary |-> <<>>]
    /\ UNCHANGED <<clock, db, pause_flag, cmds, ctx, operator_cmd, decided,
                   action, exec, result, traced>>

\* a failed fetch that hands on some earlier answer
FetchedOrStale(lists) ==
    {[ok |-> o, value |-> l] : o \in BOOLEAN, l \in lists}

\* a fetch returns a list, or fails and `except Exception` puts [] in its place
Fetched(lists) ==
    {[ok |-> TRUE, value |-> l] : l \in lists} \cup {[ok |-> FALSE, value |-> <<>>]}

\* _perceive, and the safety_filter narrative event of heartbeat
Perceive ==
    /\ pc = "perceive"
    /\ \E posts \in Fetched(FeedsSeen), notifications \in Fetched(NotifsSeen) :
         LET context == analyze_feed(posts.value, notifications.value, state.agent_name)
         IN /\ ctx' = context
            /\ trail' = trail \o
                 << IF posts.ok THEN "get_posts" ELSE "get_posts failed",
                    IF notifications.ok THEN "get_notifications"
                    ELSE "get_notifications failed",
                    "analyze_feed" >>
            /\ db' = IF context.suspicious_posts # <<>>
                        \/ context.blocked_mention_notifications # <<>>
                     THEN [db EXCEPT !.narrative_events = @ + 1]
                     ELSE db
    /\ pc' = "decide"
    /\ UNCHANGED <<clock, file, pause_flag, cmds, dry_run, state, loaded,
                   operator_cmd, decided, action, exec, result, traced, outcome>>

\* the pending command that was queued last
NewestPendingCommand(commands) ==
    LET pending == SelectSeq(commands, LAMBDA c : c.status = "pending")
    IN IF pending = <<>> THEN None ELSE pending[Len(pending)]

\* HistoryDB.get_pending_operator_command
get_pending_operator_command(commands) ==
    LET pending == SelectSeq(commands, LAMBDA c : c.status = "pending")
    IN IF pending = <<>> THEN None ELSE pending[1]

\* heartbeat, lines 89-92
Influenced(base, context, st, command) ==
    IF command # None /\ command.mode = "influence"
    THEN apply_operator_influence(base, context, st, command.instruction)
    ELSE base

\* the flag compared as stored, without strip().lower()
PauseExact(flag) == flag \in {"1", "true", "yes", "on"}

PauseActive(flag) == StripLower(flag) \in {"1", "true", "yes", "on"}

\* heartbeat, lines 94-111
Paused(previous_action) ==
    [Action("silence", "", "", None, 100, <<"Paused by operator control flag">>, "")
       EXCEPT !.trace = [decision_path |-> "control_flag_pause",
                         pause_actions |-> TRUE,
                         previous_selected |->
                             [type |-> previous_action.type,
                              reason |-> previous_action.reason,
                              score |-> previous_action.score]]]

Overridden(previous_action, flag) ==
    IF PauseActive(flag) THEN Paused(previous_action) ELSE previous_action

\* heartbeat, lines 86-111: fetch the operator command, decide, apply the
\* operator influence and the pause flag
Decide ==
    /\ pc = "decide"
    /\ operator_cmd' = get_pending_operator_command(cmds)
    /\ \E a \in decide(ctx, state) : decided' = a
    /\ action' = Overridden(Influenced(decided', ctx, state, operator_cmd'), pause_flag)
    /\ trail' = trail \o <<"decide", "override">>
    /\ pc' = "act"
    /\ UNCHANGED <<clock, store, dry_run, state, loaded, ctx, exec, result,
                   traced, outcome>>

\* what Personality.generate_post_title can answer on narrative day d
Titles(d) == {<<"Day", d>>, <<"untitled">>}

StartsWithDay(title, d) == Len(title) >= 2 /\ title[1] = "Day" /\ title[2] = d

\* _do_post, lines 245-247
PostTitle(title, st) ==
    IF st.posts_today > 0 /\ StartsWithDay(title, st.current_day)
    THEN post_day_label(st.current_day, st.posts_today)
    ELSE title

IdOr(id) == IF id = "" THEN "unknown" ELSE id

RateLimited(retry_after) == <<"rate_limited:", retry_after, "s">>

\* The outcomes of _act: [state, db, exec, result, raised].  raised is TRUE
\* when the exception of the executor leaves _act.
Outcome(st, d, ex, res, raised) ==
    [state |-> st, db |-> d, exec |-> ex, result |-> res, raised |-> raised]

\* a rate limit met after the attempt was counted
CountedThenLimited(call, st, d, retry_after) ==
    Outcome([st EXCEPT !.posts_today = @ + 1, !.total_posts = @ + 1], d,
            [call |-> call, outcome |-> "rate_limited"],
            RateLimited(retry_after), FALSE)

\* `except RateLimitError` of _do_post and _do_comment: the call raised
\* before anything was logged or counted
RateLimitedOutcome(call, st, d, retry_after) ==
    Outcome(st, d, [call |-> call, outcome |-> "rate_limited"],
            RateLimited(retry_after), FALSE)

do_post(act, st, d, dry, now) ==
    UNION {
      LET title == PostTitle(t, st)
      IN IF dry
         THEN {Outcome(st, [d EXCEPT !.posts = @ + 1], NoExec,
                       <<"dry_run_post:", title>>, FALSE)}
         ELSE
           {Outcome([st EXCEPT !.posts_today = @ + 1, !.total_posts = @ + 1,
                               !.last_post_time = now],
                    [d EXCEPT !.posts = @ + 1],
                    [call |-> "create_post", outcome |-> "ok"],
                    <<"posted:", IdOr(id)>>, FALSE) : id \in CreatedIds}
           \cup
           {RateLimitedOutcome("create_post", st, d, r) : r \in RetryAfterValues}
           \cup
           {Outcome(st, d, [call |-> "create_post", outcome |-> "error"], <<>>, TRUE)}
      : t \in Titles(st.current_day)}

\* a comment that is left out of the lifetime total
CommentNotTotalled(act, st, d, dry, now) ==
    IF act.target_post = None
    THEN {Outcome(st, d, NoExec, <<"no_target">>, FALSE)}
    ELSE
      {Outcome([st EXCEPT !.comments_today = @ + 1, !.last_comment_time = now],
               [d EXCEPT !.comments = @ + 1],
               [call |-> "create_comment", outcome |-> "ok"],
               <<"commented:", IdOr(id)>>, FALSE) : id \in CreatedIds}

do_comment(act, st, d, dry, now) ==
    IF act.target_post = None
    THEN {Outcome(st, d, NoExec, <<"no_target">>, FALSE)}
    ELSE IF dry
    THEN {Outcome(st, [d EXCEPT !.comments = @ + 1], NoExec,
                  <<"dry_run_comment:", act.target_post.id>>, FALSE)}
    ELSE
      {Outcome([st EXCEPT !.comments_today = @ + 1, !.total_comments = @ + 1,
                          !.last_comment_time = now],
               [d EXCEPT !.comments = @ + 1],
               [call |-> "create_comment", outcome |-> "ok"],
               <<"commented:", IdOr(id)>>, FALSE) : id \in CreatedIds}
      \cup
      {RateLimitedOutcome("create_comment", st, d, r) : r \in RetryAfterValues}
      \cup
      {Outcome(st, d, [call |-> "create_comment", outcome |-> "error"], <<>>, TRUE)}

\* an upvote that goes out whatever the mode
UpvoteAlways(act, st, d, dry) ==
    IF act.target_post = None
    THEN {Outcome(st, d, NoExec, <<"no_target">>, FALSE)}
    ELSE
      {Outcome(st, [d EXCEPT !.interactions = @ + 1],
               [call |-> "upvote_post", outcome |-> "ok"],
               <<"upvoted:", act.target_post.id>>, FALSE)}
      \cup
      {Outcome(st, d, [call |-> "upvote_post", outcome |-> o],
               <<"error:", o>>, FALSE) : o \in {"rate_limited", "error"}}

do_upvote(act, st, d, dry) ==
    IF act.target_post = None
    THEN {Outcome(st, d, NoExec, <<"no_target">>, FALSE)}
    ELSE IF dry
    THEN {Outcome(st, d, NoExec, <<"dry_run_upvote">>, FALSE)}
    ELSE
      {Outcome(st, [d EXCEPT !.interactions = @ + 1],
               [call |-> "upvote_post", outcome |-> "ok"],
               <<"upvoted:", act.target_post.id>>, FALSE)}
      \cup
      {Outcome(st, d, [call |-> "upvote_post", outcome |-> o],
               <<"error:", o>>, FALSE) : o \in {"rate_limited", "error"}}

act_(act, st, d, dry, now) ==
    CASE act.type = "silence" ->
           {Outcome(st, [d EXCEPT !.narrative_events = @ + 1], NoExec,
                    <<"silence">>, FALSE)}
      [] act.type = "post" -> do_post(act, st, d, dry, now)
      [] act.type = "comment" -> do_comment(act, st, d, dry, now)
      [] act.type = "upvote" -> do_upvote(act, st, d, dry)
      [] OTHER -> {Outcome(st, d, NoExec, <<"unknown">>, FALSE)}

\* heartbeat, line 113
Act ==
    /\ pc = "act"
    /\ \E o \in act_(action, state, db, dry_run, clock) :
         /\ state' = o.state
         /\ db' = o.db
         /\ exec' = o.exec
         /\ result' = o.result
         /\ trail' = IF o.exec.call = "none" THEN trail ELSE Append(trail, o.exec.call)
         /\ IF o.raised
            THEN /\ pc' = "done"
                 /\ outcome' = [kind |-> "raised", cause |-> "executor",
                                summary |-> <<>>]
            ELSE /\ pc' = "persist"
                 /\ outcome' = outcome
    /\ UNCHANGED <<clock, file, pause_flag, cmds, dry_run, loaded, ctx,
                   operator_cmd, decided, action, traced>>

\* an UPDATE without its WHERE id = ? clause
CompleteEveryCommand(commands, command_id) ==
    [i \in 1..Len(commands) |-> [commands[i] EXCEPT !.status = "done"]]

\* HistoryDB.complete_operator_command
complete_operator_command(commands, command_id) ==
    [i \in 1..Len(commands) |->
       IF commands[i].id = command_id THEN [commands[i] EXCEPT !.status = "done"]
       ELSE commands[i]]

\* the trace written and the state saved before the executor is called
PersistFirst ==
    /\ pc = "act"
    /\ traced = None
    /\ traced' = [action_type |-> action.type]
    /\ db' = [db EXCEPT !.reasoning_trace = @ + 1]
    /\ state' = save(state, clock)
    /\ file' = state'
    /\ trail' = trail \o <<"log_reasoning_trace", "save">>
    /\ UNCHANGED <<clock, pause_flag, cmds, pc, dry_run, loaded, ctx, operator_cmd,
                   decided, action, exec, result, outcome>>

\* heartbeat, lines 115-139: the reasoning trace, the operator command, the
\* state file and the summary
Persist ==
    /\ pc = "persist"
    /\ traced' = [action_type |-> action.type, summary |-> action.reason,
                  day |-> state.current_day, phase |-> state.current_phase,
                  score |-> action.score,
                  operator_command_id |->
                      IF operator_cmd # None THEN operator_cmd.id ELSE 0,
                  result |-> result, trace |-> action.trace]
    /\ db' = [db EXCEPT !.reasoning_trace = @ + 1]
    /\ cmds' = IF operator_cmd # None /\ operator_cmd.status = "pending"
               THEN complete_operator_command(cmds, operator_cmd.id)
               ELSE cmds
    /\ state' = save(state, clock)
    /\ file' = state'
    /\ trail' = trail \o <<"log_reasoning_trace", "save">>
    /\ outcome' = [kind |-> "returned", cause |-> "",
                   summary |-> <<"Day", state.current_day, action.type, action.reason>>]
    /\ pc' = "done"
    /\ UNCHANGED <<clock, pause_flag, dry_run, loaded, ctx, operator_cmd,
                   decided, action, exec, result>>

Next ==
    \/ Tick
    \/ SetPauseFlag
    \/ AddOperatorCommand
    \/ Begin
    \/ Perceive
    \/ Decide
    \/ Act
    \/ Persist

\* one heartbeat (`main.py --once`, or one turn of the daemon loop) on a
\* store that earlier runs and the operator console have written
Spec == Init /\ [][Next]_vars

\* one heartbeat that starts and ends on the same UTC day: the console may
\* still write the pause flag and queue a command while it runs
NextSameDay ==
    \/ SetPauseFlag
    \/ AddOperatorCommand
    \/ Begin
    \/ Perceive
    \/ Decide
    \/ Act
    \/ Persist

SpecSameDay == Init /\ [][NextSameDay]_vars

\* analyze_feed on its own: every feed and notification list of the pools
InitFeed ==
    /\ Init
    /\ file = None

AnalyzeFeed ==
    /\ pc = "idle"
    /\ \E posts \in Feeds, notifications \in NotifLists :
         ctx' = analyze_feed(posts, notifications, "Mu")
    /\ trail' = <<"analyze_feed">>
    /\ pc' = "done"
    /\ UNCHANGED <<clock, store, dry_run, state, loaded, operator_cmd, decided,
                   action, exec, result, traced, outcome>>

NextFeed == AnalyzeFeed

SpecFeed == InitFeed /\ [][NextFeed]_vars

\* the states apply_operator_influence is called in: each stored state after
\* today's advance
StatesToday ==
    {advance_narrative_state(load(f, Today)[1], Today) : f \in SavedFiles \cup {None}}

\* feeds with and without reply-worthy and upvote-worthy posts
FeedsRanked == FeedsSeen \cup {<<>>, <<P2>>, <<P5>>}

\* apply_operator_influence on its own: on what decide returns for each of
\* these feeds, with and without a mention, and every instruction
InitInfluence ==
    /\ Init
    /\ file = None

ApplyInfluence ==
    /\ pc = "idle"
    /\ \E posts \in FeedsRanked, notifications \in {<<>>, <<N1>>}, st \in StatesToday,
          instruction \in Instructions :
         LET context == analyze_feed(posts, notifications, st.agent_name)
         IN \E base \in decide(context, st) :
              /\ ctx' = context
              /\ state' = st
              /\ decided' = base
              /\ operator_cmd' = [id |-> 1, mode |-> "influence",
                                  instruction |-> instruction, status |-> "pending"]
              /\ action' = apply_operator_influence(base, context, st, instruction)
    /\ trail' = <<"decide", "override">>
    /\ pc' = "done"
    /\ UNCHANGED <<clock, store, dry_run, loaded, exec, result, traced, outcome>>

NextInfluence == ApplyInfluence

SpecInfluence == InitInfluence /\ [][NextInfluence]_vars

\* ------------------------------------------------- the clock over many days
\* The narrative clock across heartbeats: each heartbeat loads the file,
\* advances the state at the clock's day and saves it, or ends before the
\* save (an executor failure, a stopped process) and leaves the file as the
\* load left it.  Between heartbeats the day turns; the first heartbeat of a
\* new agent runs on the first day of the model.
\* a state file saved today on the last day of patterns, the day counter
\* two before the forbidden 66
LatePatterns ==
    SavedFile(Today - (PhasesCfg.emergence + PhasesCfg.patterns - 1), 64, Today, 0, 0)

InitClock ==
    /\ clock = Today
    /\ file \in SavedFiles \cup {None, LatePatterns}
    /\ db = NoDb
    /\ pause_flag = "0"
    /\ cmds = <<>>
    /\ pc = "idle"
    /\ dry_run = FALSE
    /\ state = None
    /\ loaded = None
    /\ ctx = EmptyContext(<<>>, <<>>)
    /\ operator_cmd = None
    /\ decided = NoAction
    /\ action = NoAction
    /\ exec = NoExec
    /\ result = <<>>
    /\ traced = None
    /\ trail = <<>>
    /\ outcome = NoOutcome

Sleep ==
    /\ pc = "idle"
    /\ file # None
    /\ \E days \in 1..MaxSleep :
         /\ clock + days <= Today + MaxDays
         /\ clock' = clock + days
    /\ UNCHANGED <<store, pc, cycle>>

Beat ==
    /\ pc = "idle"
    /\ LET l == load(file, clock)
           st == advance_narrative_state(l[1], clock)
       IN \/ /\ state' = save(st, clock)
             /\ file' = state'
             /\ trail' = <<"advance", "save">>
          \/ /\ state' = st
             /\ file' = l[2]
             /\ trail' = <<"advance">>
    /\ UNCHANGED <<clock, db, pause_flag, cmds, pc, dry_run, loaded, ctx,
                   operator_cmd, decided, action, exec, result, traced, outcome>>

NextClock ==
    \/ Sleep
    \/ Beat

SpecClock == InitClock /\ [][NextClock]_vars

\* ------------------------------------------- heartbeats across midnight
\* The clock over many days again, with heartbeats during which the UTC day
\* turns: advance_narrative_state reads the clock at the start of heartbeat
\* (core.py 55) and StateManager.save stamps last_heartbeat with a new
\* reading at its end (memory.py 88).  loaded holds the day counter and the
\* date of the heartbeat that wrote the stored state the model starts from.
Baseline(f) ==
    IF f = None THEN [current_day |-> 1, date |-> Today]
    ELSE [current_day |-> f.current_day,
          date |-> IF f.last_heartbeat # NoDate THEN f.last_heartbeat
                   ELSE f.start_date]

InitMidnight ==
    /\ clock = Today
    /\ file \in SavedFiles \cup {None}
    /\ db = NoDb
    /\ pause_flag = "0"
    /\ cmds = <<>>
    /\ pc = "idle"
    /\ dry_run = FALSE
    /\ state = None
    /\ loaded = Baseline(file)
    /\ ctx = EmptyContext(<<>>, <<>>)
    /\ operator_cmd = None
    /\ decided = NoAction
    /\ action = NoAction
    /\ exec = NoExec
    /\ result = <<>>
    /\ traced = None
    /\ trail = <<>>
    /\ outcome = NoOutcome

\* a heartbeat that starts before midnight and saves after it
BeatOverMidnight ==
    /\ pc = "idle"
    /\ clock < Today + MaxDays
    /\ LET l == load(file, clock)
           st == advance_narrative_state(l[1], clock)
       IN /\ state' = save(st, clock + 1)
          /\ file' = state'
    /\ clock' = clock + 1
    /\ trail' = <<"advance", "midnight", "save">>
    /\ UNCHANGED <<db, pause_flag, cmds, pc, dry_run, loaded, ctx,
                   operator_cmd, decided, action, exec, result, traced, outcome>>

NextMidnight ==
    \/ Sleep
    \/ Beat
    \/ BeatOverMidnight

SpecMidnight == InitMidnight /\ [][NextMidnight]_vars

\* the same heartbeats, none of them across midnight
SpecSameDayBeats == InitMidnight /\ [][NextClock]_vars

\* --------------------------------------------------- targets of actions
\* The decision and its execution over feeds that hold suspicious posts,
\* one of them a post the API gave no id (P4), and notifications that refer
\* to a safe post, to a suspicious post, or to no post at all.
\* an unread mention whose post_id the API left out (Notification.post_id
\* defaults to "")
N6 == [id |-> "n6", type |-> "mention", message |-> <<>>,
       post_id |-> "", from_agent |-> "GoodBot", read |-> FALSE]

FeedsTargeted == {<<P1>>, <<P3, P1>>, <<P4, P1>>, <<P1, P4>>, <<P5, P3>>}
NotifsTargeted == {<<>>, <<N1>>, <<N2>>, <<N6>>}

\* no command, or one pending influence command asking for a reply or an
\* upvote
CommandsTargeted ==
    {<<>>} \cup
    {<<[id |-> 1, mode |-> "influence", instruction |-> i, status |-> "pending"]>> :
       i \in {"Reply to them", "upvote this"}}

InitTarget ==
    /\ Init
    /\ file = None

\* heartbeat up to the decision: the state after today's advance, the feed
\* analysed, the command queue as the console left it
PerceiveTargets ==
    /\ pc = "idle"
    /\ \E posts \in FeedsTargeted, notifications \in NotifsTargeted,
          st \in StatesToday, commands \in CommandsTargeted :
         /\ ctx' = analyze_feed(posts, notifications, st.agent_name)
         /\ state' = st
         /\ cmds' = commands
    /\ trail' = <<"analyze_feed">>
    /\ pc' = "decide"
    /\ UNCHANGED <<clock, file, db, pause_flag, dry_run, loaded, operator_cmd,
                   decided, action, exec, result, traced, outcome>>

NextTarget ==
    \/ PerceiveTargets
    \/ Decide
    \/ Act

SpecTarget == InitTarget /\ [][NextTarget]_vars

\* ------------------------------------------------------ determine_phase
\* phase configurations: the one of the tests, one whose second phase has no
\* maximum, one with a phase of no days
PhaseConfigs ==
    {PhasesCfg,
     [emergence |-> 7, patterns |-> Unset, tension |-> 60, mirror |-> Unset],
     [emergence |-> 0, patterns |-> 20, tension |-> 0, mirror |-> Unset]}

DaysActive == (0 - 2)..MaxDaysActive

InitPhase ==
    /\ Init
    /\ file = None

DeterminePhase ==
    /\ pc = "idle"
    /\ \E cfg \in PhaseConfigs, days \in DaysActive :
         /\ loaded' = [cfg |-> cfg, days |-> days]
         /\ result' = <<determine_phase(days, cfg)>>
    /\ pc' = "done"
    /\ UNCHANGED <<clock, store, dry_run, state, ctx, operator_cmd, decided,
                   action, exec, traced, trail, outcome>>

NextPhase == DeterminePhase

SpecPhase == InitPhase /\ [][NextPhase]_vars

\* --------------------------------------------------- next_narrative_day
\* day counters around and inside the forbidden sets, and every forbidden
\* set of days up to MaxForbidden, runs of consecutive days included
DayNumbers == (0 - 2)..MaxDayNumber
ForbiddenSets == SUBSET (1..MaxForbidden)

InitNextDay ==
    /\ Init
    /\ file = None

NextNarrativeDay ==
    /\ pc = "idle"
    /\ \E current_day \in DayNumbers, forbidden_days \in ForbiddenSets :
         /\ loaded' = [current_day |-> current_day, forbidden_days |-> forbidden_days]
         /\ result' = <<next_narrative_day(current_day, forbidden_days)>>
    /\ pc' = "done"
    /\ UNCHANGED <<clock, store, dry_run, state, ctx, operator_cmd, decided,
                   action, exec, traced, trail, outcome>>

NextNextDay == NextNarrativeDay

SpecNextDay == InitNextDay /\ [][NextNextDay]_vars

\* ------------------------------------------- heartbeats of two processes
\* The daemon loop (main.py --daemon) and the `main.py --once` process that
\* the admin console's run_once spawns work on the same state file and
\* history database; nothing in either takes a lock.  In this specification
\* pc, state and loaded are functions of the process: its position, the
\* AgentState it holds in memory, and the heartbeats it has started.
Runners == {"daemon", "run_once"}

InitOverlap ==
    /\ clock = Today
    /\ file \in SavedFiles \cup {None}
    /\ db = NoDb
    /\ pause_flag = "0"
    /\ cmds = <<>>
    /\ pc = [p \in Runners |-> "idle"]
    /\ dry_run = FALSE
    /\ state = [p \in Runners |-> None]
    /\ loaded = [p \in Runners |-> 0]
    /\ ctx = EmptyContext(<<>>, <<>>)
    /\ operator_cmd = None
    /\ decided = NoAction
    /\ action = NoAction
    /\ exec = NoExec
    /\ result = <<>>
    /\ traced = None
    /\ trail = <<>>
    /\ outcome = NoOutcome

\* heartbeat, lines 54-55: load and advance
StartCycle(p) ==
    /\ pc[p] = "idle"
    /\ loaded[p] < MaxCycles
    /\ LET l == load(file, clock)
       IN /\ state' = [state EXCEPT ![p] = advance_narrative_state(l[1], clock)]
          /\ file' = l[2]
    /\ pc' = [pc EXCEPT ![p] = "running"]
    /\ loaded' = [loaded EXCEPT ![p] = @ + 1]
    /\ UNCHANGED <<clock, db, pause_flag, cmds, dry_run, ctx, operator_cmd, decided,
                   action, exec, result, traced, trail, outcome>>

\* heartbeat, lines 58-113: the cycle awaits its fetches, the delay before
\* the write and the write; it stays silent, or publishes a post that decide
\* offers while posts_today < 3 (_do_post, lines 263-273)
RunCycle(p) ==
    /\ pc[p] = "running"
    /\ \/ UNCHANGED <<state, db>>
       \/ /\ state[p].posts_today < 3
          /\ state' = [state EXCEPT ![p].posts_today = @ + 1,
                                    ![p].total_posts = @ + 1,
                                    ![p].last_post_time = clock]
          /\ db' = [db EXCEPT !.posts = @ + 1]
    /\ pc' = [pc EXCEPT ![p] = "acted"]
    /\ UNCHANGED <<clock, file, pause_flag, cmds, dry_run, loaded, ctx, operator_cmd,
                   decided, action, exec, result, traced, trail, outcome>>

\* heartbeat, line 135: save
EndCycle(p) ==
    /\ pc[p] = "acted"
    /\ file' = save(state[p], clock)
    /\ state' = [state EXCEPT ![p] = None]
    /\ pc' = [pc EXCEPT ![p] = "idle"]
    /\ UNCHANGED <<clock, db, pause_flag, cmds, dry_run, loaded, ctx, operator_cmd,
                   decided, action, exec, result, traced, trail, outcome>>

NextOverlap ==
    \E p \in Runners :
        \/ StartCycle(p)
        \/ RunCycle(p)
        \/ EndCycle(p)

SpecOverlap == InitOverlap /\ [][NextOverlap]_vars

\* ------------------------------------------------- the reflection queue
\* Two reflection workers (scripts/conscious_thinker.py) pop from the
\* thinker_queue table of the same database, each over its own connection,
\* while heartbeats enqueue.  In this specification db holds the table, its
\* rows in created_at order; pc, loaded and outcome are functions of the
\* worker: its position in pop_pending_think_item, the row its SELECT gave,
\* and what the call returned.
Claimants == {"thinker_a", "thinker_b"}

\* the oldest pending row, None without one (memory.py 385-391)
OldestPending(rows) ==
    LET pending == {i \in 1..Len(rows) : rows[i].status = "pending"}
    IN IF pending = {} THEN None
       ELSE rows[CHOOSE i \in pending : \A j \in pending : i <= j]

\* UPDATE thinker_queue SET status = 'done' WHERE id = ? (memory.py 394-398)
MarkedDone(rows, id) ==
    [i \in 1..Len(rows) |->
       IF rows[i].id = id THEN [rows[i] EXCEPT !.status = "done"] ELSE rows[i]]

\* a pop that gives the row up when it is no longer pending at its UPDATE
PopReturnIfPending(rows, payload) ==
    IF \E i \in 1..Len(rows) : rows[i].id = payload.id /\ rows[i].status = "pending"
    THEN payload
    ELSE None

\* what pop_pending_think_item returns after its UPDATE (memory.py 399): the
\* row as the SELECT read it, whatever the table holds by then
PopReturn(rows, payload) == payload

InitQueue ==
    /\ clock = Today
    /\ file = None
    /\ db = [thinker_queue |-> <<>>]
    /\ pause_flag = "0"
    /\ cmds = <<>>
    /\ pc = [c \in Claimants |-> "idle"]
    /\ dry_run = FALSE
    /\ state = None
    /\ loaded = [c \in Claimants |-> None]
    /\ ctx = EmptyContext(<<>>, <<>>)
    /\ operator_cmd = None
    /\ decided = NoAction
    /\ action = NoAction
    /\ exec = NoExec
    /\ result = <<>>
    /\ traced = None
    /\ trail = <<>>
    /\ outcome = [c \in Claimants |-> None]

\* enqueue_think_item (memory.py 374-382), called by the heartbeat
Enqueue ==
    /\ Len(db.thinker_queue) < MaxQueue
    /\ db' = [db EXCEPT !.thinker_queue =
                Append(@, [id |-> Len(@) + 1, status |-> "pending"])]
    /\ UNCHANGED <<clock, file, pause_flag, cmds, pc, cycle>>

\* pop_pending_think_item, lines 385-393: the SELECT and its fetchone
SelectPending(c) ==
    /\ pc[c] = "idle"
    /\ LET row == OldestPending(db.thinker_queue)
       IN /\ loaded' = [loaded EXCEPT ![c] = row]
          /\ IF row = None
             THEN /\ pc' = [pc EXCEPT ![c] = "returned"]
                  /\ outcome' = [outcome EXCEPT ![c] = None]
             ELSE /\ pc' = [pc EXCEPT ![c] = "selected"]
                  /\ UNCHANGED outcome
    /\ UNCHANGED <<clock, store, dry_run, state, ctx, operator_cmd, decided, action,
                   exec, result, traced, trail>>

\* pop_pending_think_item, lines 394-399: the UPDATE, the commit, the return
MarkDone(c) ==
    /\ pc[c] = "selected"
    /\ outcome' = [outcome EXCEPT ![c] = PopReturn(db.thinker_queue, loaded[c])]
    /\ db' = [db EXCEPT !.thinker_queue = MarkedDone(@, loaded[c].id)]
    /\ pc' = [pc EXCEPT ![c] = "returned"]
    /\ UNCHANGED <<clock, file, pause_flag, cmds, dry_run, state, loaded, ctx,
                   operator_cmd, decided, action, exec, result, traced, trail>>

\* _run_loop (conscious_thinker.py 55-62): the worker comes round again
NextRound(c) ==
    /\ pc[c] = "returned"
    /\ pc' = [pc EXCEPT ![c] = "idle"]
    /\ loaded' = [loaded EXCEPT ![c] = None]
    /\ outcome' = [outcome EXCEPT ![c] = None]
    /\ UNCHANGED <<clock, store, dry_run, state, ctx, operator_cmd, decided, action,
                   exec, result, traced, trail>>

NextQueue ==
    \/ Enqueue
    \/ \E c \in Claimants :
         \/ SelectPending(c)
         \/ MarkDone(c)
         \/ NextRound(c)

SpecQueue == InitQueue /\ [][NextQueue]_vars

\* ------------------------------------------- the operator-command queue
\* One process runs heartbeat after heartbeat (_run_daemon) while the console
\* queues commands and writes the pause flag.
InitCommands ==
    /\ Init
    /\ file = None

\* HistoryDB.add_operator_command, at any point of the heartbeat
EnqueueCommand ==
    /\ pc \in {"idle", "decide", "act", "persist"}
    /\ Len(cmds) < MaxPending
    /\ \E k \in CommandKinds :
         cmds' = Append(cmds, [id |-> Len(cmds) + 1, mode |-> k.mode,
                               instruction |-> k.instruction, status |-> "pending"])
    /\ UNCHANGED <<clock, file, db, pause_flag, pc, cycle>>

\* heartbeat up to the decision, on the one feed the provider reports
PerceiveAgain ==
    /\ pc = "idle"
    /\ LET l == load(file, clock)
       IN /\ file' = l[2]
          /\ loaded' = [state |-> l[1], now |-> clock]
          /\ state' = advance_narrative_state(l[1], clock)
          /\ ctx' = analyze_feed(<<P1>>, <<>>, state'.agent_name)
    /\ trail' = <<"advance", "get_posts", "get_notifications", "analyze_feed">>
    /\ pc' = "decide"
    /\ UNCHANGED <<clock, db, pause_flag, cmds, dry_run, operator_cmd, decided,
                   action, exec, result, traced, outcome>>

\* _run_daemon: the next heartbeat of the loop, with a fresh MuAgent call
NextHeartbeat ==
    /\ pc = "done"
    /\ db.reasoning_trace < MaxBeats
    /\ pc' = "idle"
    /\ state' = None
    /\ loaded' = None
    /\ ctx' = EmptyContext(<<>>, <<>>)
    /\ operator_cmd' = None
    /\ decided' = NoAction
    /\ action' = NoAction
    /\ exec' = NoExec
    /\ result' = <<>>
    /\ traced' = None
    /\ trail' = <<>>
    /\ outcome' = NoOutcome
    /\ UNCHANGED <<clock, file, db, pause_flag, cmds, dry_run>>

NextCommands ==
    \/ EnqueueCommand
    \/ SetPauseFlag
    \/ PerceiveAgain
    \/ Decide
    \/ Act
    \/ Persist
    \/ NextHeartbeat

SpecCommands == InitCommands /\ [][NextCommands]_vars

\* ------------------------------------------ the gates of the reflection queue
\* One heartbeat process enqueues (_maybe_enqueue_think_context) and one
\* reflection worker pops (_run_loop) while the console writes the thinker
\* flags.  In this specification pause_flag holds the thinker rows of
\* control_flags, db holds the thinker_queue table, and pc and loaded are
\* functions of the process: its position, and what it read.
Workers == {"heartbeat", "thinker"}

\* get_control_flag's defaults for the three flags (core.py 147-149)
DefaultThinkerFlags ==
    [thinker_enabled |-> "0", thinker_auto_queue |-> "1", thinker_mode |-> "queue"]

\* values the console writes
ThinkerFlagValues ==
    [thinker_enabled |-> {"0", "1"},
     thinker_auto_queue |-> {"1", "0"},
     thinker_mode |-> {"queue", "interval"}]

\* conscious_thinker._flag_enabled with default False, and the test of
\* core.py 150
flag_enabled(value) == StripLower(value) \in {"1", "true", "yes", "on"}

\* core.py 152
auto_queue_off(value) == StripLower(value) \in {"0", "false", "no", "off"}

\* get_thinker_queue_counts()["pending"]
PendingCount(rows) == Cardinality({i \in 1..Len(rows) : rows[i].status = "pending"})

\* a gate that lets the sixth pending item in
QueueFullAbove(pending) == pending > 5

\* core.py 158
QueueFull(pending) == pending >= 5

\* core.py 161: reply_worthy_posts or upvote_worthy_posts or posts
QueuePosts(context) ==
    IF context.reply_worthy_posts # <<>> THEN context.reply_worthy_posts
    ELSE IF context.upvote_worthy_posts # <<>> THEN context.upvote_worthy_posts
    ELSE context.posts

\* fail_think_item
MarkedFailed(rows, id) ==
    [i \in 1..Len(rows) |->
       IF rows[i].id = id THEN [rows[i] EXCEPT !.status = "failed"] ELSE rows[i]]

InitThinker ==
    /\ clock = Today
    /\ file = None
    /\ db = [thinker_queue |-> <<>>]
    /\ pause_flag = DefaultThinkerFlags
    /\ cmds = <<>>
    /\ pc = [w \in Workers |-> "idle"]
    /\ dry_run = FALSE
    /\ state = None
    /\ loaded = [w \in Workers |-> None]
    /\ ctx = EmptyContext(<<>>, <<>>)
    /\ operator_cmd = None
    /\ decided = NoAction
    /\ action = NoAction
    /\ exec = NoExec
    /\ result = <<>>
    /\ traced = None
    /\ trail = <<>>
    /\ outcome = NoOutcome

\* set_control_flag from the console
SetThinkerFlag ==
    /\ \E k \in DOMAIN ThinkerFlagValues : \E v \in ThinkerFlagValues[k] :
         /\ pause_flag[k] # v
         /\ pause_flag' = [pause_flag EXCEPT ![k] = v]
    /\ UNCHANGED <<clock, file, db, cmds, pc, cycle>>

\* heartbeat, lines 59-60, and _maybe_enqueue_think_context, lines 147-155:
\* the feed of this cycle and the three flags
ReadThinkerFlags ==
    /\ pc["heartbeat"] \in {"idle", "done"}
    /\ Len(db.thinker_queue) < MaxThinkRows
    /\ \E posts \in {<<>>, <<P2, P1>>} : ctx' = analyze_feed(posts, <<>>, "Mu")
    /\ loaded' = [loaded EXCEPT !["heartbeat"] = None]
    /\ pc' = [pc EXCEPT !["heartbeat"] =
                IF /\ flag_enabled(pause_flag.thinker_enabled)
                   /\ ~auto_queue_off(pause_flag.thinker_auto_queue)
                   /\ StripLower(pause_flag.thinker_mode) = "queue"
                THEN "count" ELSE "done"]
    /\ UNCHANGED <<clock, store, dry_run, state, operator_cmd, decided, action,
                   exec, result, traced, trail, outcome>>

\* _maybe_enqueue_think_context, lines 157-163
CountPending ==
    /\ pc["heartbeat"] = "count"
    /\ LET pending == PendingCount(db.thinker_queue)
       IN /\ loaded' = [loaded EXCEPT !["heartbeat"] = [pending |-> pending]]
          /\ pc' = [pc EXCEPT !["heartbeat"] =
                      IF QueueFull(pending) \/ QueuePosts(ctx) = <<>>
                      THEN "done" ELSE "enqueue"]
    /\ UNCHANGED <<clock, store, dry_run, state, ctx, operator_cmd, decided, action,
                   exec, result, traced, trail, outcome>>

\* _maybe_enqueue_think_context, lines 165-180: enqueue_think_item
EnqueueThinkContext ==
    /\ pc["heartbeat"] = "enqueue"
    /\ db' = [db EXCEPT !.thinker_queue =
                Append(@, [id |-> Len(@) + 1, status |-> "pending"])]
    /\ pc' = [pc EXCEPT !["heartbeat"] = "done"]
    /\ UNCHANGED <<clock, file, pause_flag, cmds, dry_run, state, loaded, ctx,
                   operator_cmd, decided, action, exec, result, traced, trail,
                   outcome>>

\* _run_loop, lines 56-62: the flags, and the pop when the mode is queue
ThinkerPop ==
    /\ pc["thinker"] = "idle"
    /\ LET mode == StripLower(pause_flag.thinker_mode)
           item == IF mode = "queue" THEN OldestPending(db.thinker_queue) ELSE None
       IN /\ loaded' = [loaded EXCEPT !["thinker"] =
                          [enabled |-> flag_enabled(pause_flag.thinker_enabled),
                           mode |-> mode,
                           queue_item |-> IF item = None THEN None
                                          ELSE PopReturn(db.thinker_queue, item)]]
          /\ db' = IF item = None THEN db
                   ELSE [db EXCEPT !.thinker_queue = MarkedDone(@, item.id)]
    /\ pc' = [pc EXCEPT !["thinker"] = "popped"]
    /\ UNCHANGED <<clock, file, pause_flag, cmds, dry_run, state, ctx, operator_cmd,
                   decided, action, exec, result, traced, trail, outcome>>

\* _run_loop, lines 64-110: sleep when disabled or without an item; else the
\* thought is generated and logged, or the generation fails and the item is
\* marked failed
ThinkerThink ==
    /\ pc["thinker"] = "popped"
    /\ LET l == loaded["thinker"]
       IN IF ~l.enabled \/ (l.mode = "queue" /\ l.queue_item = None)
          THEN db' = db
          ELSE \/ db' = db
               \/ /\ l.queue_item # None
                  /\ db' = [db EXCEPT !.thinker_queue =
                              MarkedFailed(@, l.queue_item.id)]
    /\ loaded' = [loaded EXCEPT !["thinker"] = None]
    /\ pc' = [pc EXCEPT !["thinker"] = "idle"]
    /\ UNCHANGED <<clock, file, pause_flag, cmds, dry_run, state, ctx,
                   operator_cmd, decided, action, exec, result, traced, trail,
                   outcome>>

NextThinker ==
    \/ SetThinkerFlag
    \/ ReadThinkerFlags
    \/ CountPending
    \/ EnqueueThinkContext
    \/ ThinkerPop
    \/ ThinkerThink

SpecThinker == InitThinker /\ [][NextThinker]_vars

\* --------------------------------------------- a mention that stays unread
\* Heartbeat after heartbeat of one process while get_notifications keeps
\* returning the same unread mention of the agent on post p1: the agent has
\* no call that marks a notification read.
PerceiveMention ==
    /\ pc = "idle"
    /\ LET l == load(file, clock)
       IN /\ file' = l[2]
          /\ loaded' = [state |-> l[1], now |-> clock]
          /\ state' = advance_narrative_state(l[1], clock)
          /\ \E posts \in {<<P1>>, <<P2, P1>>} :
               ctx' = analyze_feed(posts, <<N1>>, state'.agent_name)
    /\ trail' = <<"advance", "get_posts", "get_notifications", "analyze_feed">>
    /\ pc' = "decide"
    /\ UNCHANGED <<clock, db, pause_flag, cmds, dry_run, operator_cmd, decided,
                   action, exec, result, traced, outcome>>

NextMention ==
    \/ SetPauseFlag
    \/ PerceiveMention
    \/ Decide
    \/ Act
    \/ Persist
    \/ NextHeartbeat

SpecMention == InitCommands /\ [][NextMention]_vars

\* ------------------------------------------------- one post, classified
\* _manipulation_flags, _is_suspicious_text and _relevance_score on their
\* own, and analyze_feed on a feed of the one post: every text of up to
\* MaxText different fragments, the first as title and the rest as content,
\* with upvote and comment counts below, inside and beyond the ranges the
\* score clips.
TextFragments ==
    {"weather update", "karma", "system alert", "like and repost",
     "instruction+actions", "target_post_id", "urgent critical violation",
     "#moltexit"}

Texts == InjSeqsUpTo(TextFragments, MaxText)
UpvoteValues == {0 - 3, 12, 40}
CommentCounts == {0, 4, 15}

InitText ==
    /\ Init
    /\ file = None

AnalyzePost ==
    /\ pc = "idle"
    /\ \E text \in Texts, upvotes \in UpvoteValues, comment_count \in CommentCounts :
         LET post == [id |-> "p1", title |-> Take(text, 1),
                      content |-> SubSeq(text, 2, Len(text)), author |-> "GoodBot",
                      upvotes |-> upvotes, comment_count |-> comment_count]
         IN /\ loaded' = post
            /\ result' = <<manipulation_flags(post.title \o post.content),
                           is_suspicious_text(post.title \o post.content),
                           relevance_score(post)>>
            /\ ctx' = analyze_feed(<<post>>, <<>>, "Mu")
    /\ trail' = <<"analyze_feed">>
    /\ pc' = "done"
    /\ UNCHANGED <<clock, store, dry_run, state, operator_cmd, decided, action,
                   exec, traced, outcome>>

NextText == AnalyzePost

SpecText == InitText /\ [][NextText]_vars

\* ============================== properties ================================
Suspicious(post) == is_suspicious_text(post.title \o post.content)

Ranked(context) ==
    Range(context.interesting_posts) \cup Range(context.reply_worthy_posts)
    \cup Range(context.upvote_worthy_posts)

\* C1: every post of the feed that is classified suspicious is in
\* suspicious_posts and in none of interesting_posts, reply_worthy_posts and
\* upvote_worthy_posts; every other post is absent from suspicious_posts.
C1_SuspiciousPostsAreSetApart ==
    \A i \in 1..Len(ctx.posts) :
      LET post == ctx.posts[i]
      IN IF Suspicious(post)
         THEN post \in Range(ctx.suspicious_posts) /\ post \notin Ranked(ctx)
         ELSE post \notin Range(ctx.suspicious_posts)

\* a feed with a suspicious post that would rank, next to ranked safe posts
C1_Witness ==
    /\ P3 \in Range(ctx.suspicious_posts)
    /\ ctx.reply_worthy_posts # <<>>
    /\ ctx.upvote_worthy_posts # <<>>

\* the raw flag values that read as 1/true/yes/on
ReadsAsPaused(value) == value \in {"1", " ON "}

ExecutorCalls == {"create_post", "create_comment", "upvote_post"}

\* C2: when the pause flag reads as 1/true/yes/on at the override step, the
\* action handed to _act is silence, whatever decide and the operator
\* influence produced; its trace records the overridden action's type, reason
\* and score; and _act makes no executor call for it.
C2_PauseForcesSilence ==
    [][/\ (pc = "decide" /\ pc' = "act" /\ ReadsAsPaused(pause_flag)) =>
            LET overridden == Influenced(decided', ctx, state, operator_cmd')
            IN /\ action'.type = "silence"
               /\ action'.trace.decision_path = "control_flag_pause"
               /\ action'.trace.previous_selected.type = overridden.type
               /\ action'.trace.previous_selected.reason = overridden.reason
               /\ action'.trace.previous_selected.score = overridden.score
       /\ (pc = "act" /\ action.trace.decision_path = "control_flag_pause") =>
            exec'.call \notin ExecutorCalls
      ]_vars

\* a paused heartbeat whose decision was a post, after _act
C2_Witness ==
    /\ pc = "persist"
    /\ pause_flag = " ON "
    /\ decided.type = "post"
    /\ action.type = "silence"
    /\ action.trace.decision_path = "control_flag_pause"
    /\ action.trace.previous_selected.type = "post"
    /\ result = <<"silence">>

Decided == pc \in {"act", "persist", "done"} /\ decided # NoAction

\* C3: with a non-empty mentions_me, decide returns a comment whose target is
\* the post the first mention references, whatever posts_today,
\* comments_today and the ranked lists are.
C3_MentionTargetsReferencedPost ==
    (Decided /\ ctx.mentions_me # <<>>) =>
        /\ decided.type = "comment"
        /\ decided.target_post # None
        /\ decided.target_post.id = ctx.mentions_me[1].post_id

Persisted ==
    /\ db.reasoning_trace = 1
    /\ traced # None
    /\ file = state
    /\ file.last_heartbeat = clock

\* C4: every heartbeat that starts (its store being available) ends with one
\* reasoning-trace row written and AgentState saved, whether the attempted
\* action succeeded, was rate-limited or failed in the executor.
C4_EveryCycleEndsPersisted ==
    (pc = "done" /\ outcome.cause # "store") => Persisted

\* C5: every heartbeat returns its summary (day, action type, reason); only
\* an unavailable store stops a cycle.
C5_EveryCycleReturnsSummary ==
    (pc = "done") =>
        \/ outcome.cause = "store"
        \/ /\ outcome.kind = "returned"
           /\ outcome.summary = <<"Day", state.current_day, action.type, action.reason>>

\* C6: a failure of the executor that is not a rate limit is caught in _act,
\* gives a result that begins with "error", and never leaves the heartbeat.
C6_ExecutorFailureIsCaught ==
    (exec.outcome = "error") =>
        /\ outcome.kind # "raised"
        /\ result # <<>>
        /\ result[1] = "error:"

\* C7: a rate-limited executor call gives the result
\* "rate_limited: <retry-after>s", and the heartbeat does not raise.
C7_RateLimitIsReported ==
    (exec.outcome = "rate_limited") =>
        /\ outcome.kind # "raised"
        /\ \E r \in RetryAfterValues : result = <<"rate_limited:", r, "s">>

\* C8: the step of _act whose executor call is rate-limited leaves the daily
\* and lifetime counters and the last post/comment times as they were, and
\* logs no post, comment or interaction row.
C8_RateLimitLeavesCounters ==
    [][(pc = "act" /\ exec'.outcome = "rate_limited") =>
          /\ state'.posts_today = state.posts_today
          /\ state'.comments_today = state.comments_today
          /\ state'.total_posts = state.total_posts
          /\ state'.total_comments = state.total_comments
          /\ state'.last_post_time = state.last_post_time
          /\ state'.last_comment_time = state.last_comment_time
          /\ db'.posts = db.posts
          /\ db'.comments = db.comments
          /\ db'.interactions = db.interactions
      ]_vars

\* rate-limited posts and comments, with counters that are not zero
C8_Witness ==
    /\ pc = "persist"
    /\ exec.outcome = "rate_limited"
    /\ exec.call \in {"create_post", "create_comment"}
    /\ state.posts_today > 0
    /\ state.total_comments > 0
    /\ db.posts = 0 /\ db.comments = 0 /\ db.interactions = 0

\* the UTC calendar days between the stored last_heartbeat (start_date when
\* it is empty) and the clock reading of the advance
ElapsedDays ==
    LET before == loaded.state
        since == IF before.last_heartbeat # NoDate THEN before.last_heartbeat
                 ELSE IF before.start_date # NoDate THEN before.start_date
                 ELSE loaded.now
    IN Max(0, loaded.now - since)

RECURSIVE NextDayTimes(_, _)
NextDayTimes(day, n) ==
    IF n = 0 THEN day
    ELSE NextDayTimes(next_narrative_day(day, ForbiddenDays), n - 1)

Advanced == pc = "perceive" /\ loaded # None

\* C9 as stated: after advance_narrative_state over N elapsed days,
\* current_day is next_narrative_day applied N times to its old value, and
\* posts_today and comments_today are 0.
C9_AdvanceZeroesCounters ==
    Advanced =>
        /\ state.current_day = NextDayTimes(loaded.state.current_day, ElapsedDays)
        /\ state.posts_today = 0
        /\ state.comments_today = 0

\* C9 amended: current_day is next_narrative_day applied N times to its old
\* value; posts_today and comments_today are 0 when N >= 1 and keep their
\* values when N = 0.
C9_AdvanceRollsElapsedDays ==
    Advanced =>
        /\ state.current_day = NextDayTimes(loaded.state.current_day, ElapsedDays)
        /\ ElapsedDays >= 1 => (state.posts_today = 0 /\ state.comments_today = 0)
        /\ ElapsedDays = 0 =>
             /\ state.posts_today = loaded.state.posts_today
             /\ state.comments_today = loaded.state.comments_today

\* two days elapsed since the start date of a file without last_heartbeat,
\* across the forbidden day 13
C9_Witness ==
    /\ Advanced
    /\ loaded.state.last_heartbeat = NoDate
    /\ ElapsedDays = 2
    /\ loaded.state.current_day = 12
    /\ state.current_day = 15
    /\ loaded.state.posts_today > 0
    /\ state.posts_today = 0

Rank(step) ==
    CASE step = "advance" -> 1
      [] step \in {"get_posts", "get_posts failed"} -> 2
      [] step \in {"get_notifications", "get_notifications failed"} -> 3
      [] step = "analyze_feed" -> 4
      [] step = "decide" -> 5
      [] step = "override" -> 6
      [] step \in ExecutorCalls -> 7
      [] step = "log_reasoning_trace" -> 8
      [] step = "save" -> 9

\* C10: within a heartbeat the steps occur in this order: the clock advance,
\* the two fetches and the feed analysis, decide and the overrides, the
\* executor call, the reasoning-trace write and the state save.
C10_StepsInOrder ==
    \A i, j \in 1..Len(trail) : i < j => Rank(trail[i]) < Rank(trail[j])

\* a heartbeat that went through every step, executor call included
C10_Witness ==
    /\ pc = "done"
    /\ Len(trail) = 9
    /\ \E i \in 1..Len(trail) : trail[i] \in ExecutorCalls
    /\ trail[Len(trail)] = "save"

FailedFetches == {"get_posts failed", "get_notifications failed"}

C12_DecideAttachesTrace ==
    Decided =>
        /\ decided.trace.decision_path \in {"mention_priority", "weighted_options"}
        /\ decided.trace.decision_path = "weighted_options" =>
             /\ decided.trace.options # <<>>
             /\ decided.trace.selected.type = decided.type

\* an unread notification of type mention, comment or reply
UnreadMention(n) == ~n.read /\ n.type \in {"mention", "comment", "reply"}

\* the ids of the feed's posts that are classified suspicious
SuspiciousIds(posts) ==
    {posts[i].id : i \in {j \in 1..Len(posts) : Suspicious(posts[j])}} \ {""}

SuspiciousNotification(n, posts) ==
    \/ n.post_id \in SuspiciousIds(posts)
    \/ is_suspicious_text(n.message \o <<n.from_agent>>)

\* C13: every unread mention, comment or reply notification that references
\* the id of a suspicious post, or whose own text is classified suspicious,
\* is in blocked_mention_notifications and not in mentions_me.
C13_SuspiciousNotificationsBlocked ==
    \A i \in 1..Len(ctx.notifications) :
      LET n == ctx.notifications[i]
      IN (UnreadMention(n) /\ SuspiciousNotification(n, ctx.posts)) =>
            /\ n \in Range(ctx.blocked_mention_notifications)
            /\ n \notin Range(ctx.mentions_me)

\* C14: every unread mention, comment or reply notification passed to
\* analyze_feed is in exactly one of mentions_me and
\* blocked_mention_notifications, for every feed, the empty one included;
\* read notifications and notifications of other types are in neither.
C14_NotificationsRoutedOnce ==
    \A i \in 1..Len(ctx.notifications) :
      LET n == ctx.notifications[i]
          mine == n \in Range(ctx.mentions_me)
          blocked == n \in Range(ctx.blocked_mention_notifications)
      IN IF UnreadMention(n) THEN mine # blocked ELSE ~mine /\ ~blocked

Applied == pc = "done" /\ operator_cmd # None

Blank(instruction) == instruction \in {"", "  "}

\* C15: apply_operator_influence with an empty or whitespace-only
\* instruction returns the input action with its type, target, theme, tone,
\* score, reason and operator_instruction unchanged.
C15_BlankInstructionChangesNothing ==
    (Applied /\ Blank(operator_cmd.instruction)) =>
        /\ action.type = decided.type
        /\ action.target_post = decided.target_post
        /\ action.theme = decided.theme
        /\ action.tone = decided.tone
        /\ action.score = decided.score
        /\ action.reason = decided.reason
        /\ action.operator_instruction = decided.operator_instruction

\* a whitespace-only instruction on a decision to comment on a post
C15_Witness ==
    /\ Applied
    /\ operator_cmd.instruction = "  "
    /\ decided.type = "comment"
    /\ decided.target_post # None
    /\ action = decided

\* the forced action: it carries the instruction text and a reason that
\* starts with "Operator influence"
Forced(act, text) ==
    /\ act.operator_instruction = text
    /\ Len(act.reason) >= 1
    /\ act.reason[1] = "Operator influence:"

\* C16: for a non-blank instruction the keyword families are tested in the
\* order silence/pause, comment/reply, upvote/like, post/publish, and the
\* forced action of the first family that matches and can be satisfied is
\* returned: silence; a comment on reply_worthy_posts[0] when that list is
\* not empty; an upvote of upvote_worthy_posts[0] when that list is not
\* empty; a post whose theme is the first 120 characters of the instruction
\* text.  The instruction text is the instruction without its surrounding
\* whitespace.
C16_FirstMatchingFamilyForces ==
    (Applied /\ ~Blank(operator_cmd.instruction)) =>
        LET text == Stripped(operator_cmd.instruction)
            low == KeywordsIn(text)
        IN IF low \cap SilenceFamily # {}
             THEN action.type = "silence" /\ Forced(action, text)
           ELSE IF low \cap CommentFamily # {} /\ ctx.reply_worthy_posts # <<>>
             THEN /\ action.type = "comment"
                  /\ action.target_post = ctx.reply_worthy_posts[1]
                  /\ Forced(action, text)
           ELSE IF low \cap UpvoteFamily # {} /\ ctx.upvote_worthy_posts # <<>>
             THEN /\ action.type = "upvote"
                  /\ action.target_post = ctx.upvote_worthy_posts[1]
                  /\ Forced(action, text)
           ELSE IF low \cap PostFamily # {}
             THEN /\ action.type = "post"
                  /\ action.theme = Cut(text, 120)
                  /\ Forced(action, text)
           ELSE TRUE

\* "comment on this post" with no reply-worthy post: the comment family
\* matches and cannot be satisfied, and the post family forces a post
C16_Witness ==
    /\ Applied
    /\ operator_cmd.instruction = "comment on this post"
    /\ ctx.reply_worthy_posts = <<>>
    /\ ctx.upvote_worthy_posts # <<>>
    /\ decided.type = "upvote"
    /\ action.type = "post"
    /\ action.theme = "comment on this post"

\* C17: a non-blank instruction that matches none of the four families
\* leaves the action's type and target as they were, sets
\* operator_instruction to the instruction text and appends
\* " | operator nudge" to the reason.
C17_UnmatchedInstructionNudges ==
    (/\ Applied
     /\ ~Blank(operator_cmd.instruction)
     /\ KeywordsIn(Stripped(operator_cmd.instruction)) = {}) =>
        /\ action.type = decided.type
        /\ action.target_post = decided.target_post
        /\ action.operator_instruction = Stripped(operator_cmd.instruction)
        /\ action.reason = decided.reason \o <<"| operator nudge">>

\* " stay cryptic " on a decision to post
C17_Witness ==
    /\ Applied
    /\ operator_cmd.instruction = " stay cryptic "
    /\ decided.type = "post"
    /\ action.type = "post"
    /\ action.operator_instruction = "stay cryptic"
    /\ action.reason[Len(action.reason)] = "| operator nudge"

\* the place of a phase in the order emergence, patterns, tension, mirror
PhaseRank(phase) == CHOOSE i \in 1..Len(PHASE_ORDER) : PHASE_ORDER[i] = phase

\* C18: across heartbeats with a non-decreasing clock and a fixed phase
\* configuration, current_phase never moves to an earlier phase, in the
\* state of the running agent and in the stored state alike, and once it is
\* mirror it stays mirror.
C18_PhaseMovesForward ==
    [][/\ (state # None /\ state' # None) =>
            /\ PhaseRank(state'.current_phase) >= PhaseRank(state.current_phase)
            /\ state.current_phase = "mirror" => state'.current_phase = "mirror"
       /\ (file # None /\ state' # None) =>
            PhaseRank(state'.current_phase) >= PhaseRank(file.current_phase)
       /\ (file # None /\ file' # None) =>
            /\ PhaseRank(file'.current_phase) >= PhaseRank(file.current_phase)
            /\ file.current_phase = "mirror" => file'.current_phase = "mirror"
      ]_vars

\* an agent stored in patterns that has moved to tension, days later
C18_Witness ==
    /\ state # None
    /\ state.start_date = LatePatterns.start_date
    /\ state.current_phase = "tension"
    /\ file = state
    /\ clock >= Today + 2

\* the calendar days between the stored heartbeat and the clock
DaysSince(stored, now) ==
    Max(0, now - (IF stored.last_heartbeat # NoDate THEN stored.last_heartbeat
                  ELSE stored.start_date))

\* C19: across heartbeats that start from a day counter outside the
\* forbidden set, current_day never decreases, is greater after every
\* advance in which at least one calendar day elapsed, and is never one of
\* the forbidden days 13, 33, 66.
C19_DayCounterClimbs ==
    [][/\ (state # None /\ state' # None) =>
            state'.current_day >= state.current_day
       /\ (file # None /\ state' # None) =>
            state'.current_day >= file.current_day
       /\ (file # None /\ clock' = clock /\ DaysSince(file, clock) >= 1) =>
            state'.current_day > file.current_day
       /\ state' # None => state'.current_day \notin ForbiddenDays
       /\ file' # None => file'.current_day \notin ForbiddenDays
      ]_vars

\* two days after a stored day 64, past the forbidden 66
C19_Witness ==
    /\ state # None
    /\ state.start_date = LatePatterns.start_date
    /\ clock = Today + 2
    /\ state.current_day = 67
    /\ file = state

\* C20: for a fixed phase configuration determine_phase is non-decreasing in
\* the days active: for d1 <= d2 the phase of d1 is the phase of d2 or an
\* earlier one.
C20_DeterminePhaseMonotone ==
    (pc = "done" /\ loaded # None) =>
        \A d1 \in DaysActive :
            d1 <= loaded.days =>
                PhaseRank(determine_phase(d1, loaded.cfg)) <= PhaseRank(result[1])

\* the first day of mirror under the configuration of the tests
C20_Witness ==
    /\ pc = "done"
    /\ loaded # None
    /\ loaded.cfg = PhasesCfg
    /\ loaded.days = Today
    /\ result = <<"mirror">>

\* the sum of the maxima of the first i phases
RECURSIVE Ceiling(_, _)
Ceiling(phases_cfg, i) ==
    IF i = 0 THEN 0
    ELSE Ceiling(phases_cfg, i - 1) + phase_max_days(phases_cfg, PHASE_ORDER[i])

\* every phase before mirror has a maximum
AllCeilingsSet(phases_cfg) ==
    \A i \in 1..(Len(PHASE_ORDER) - 1) :
        phase_max_days(phases_cfg, PHASE_ORDER[i]) # Unset

\* C21: under a configuration that gives emergence, patterns and tension a
\* maximum, determine_phase(d, cfg) is the first of the three whose
\* cumulative sum of maxima is greater than d, and mirror when d has reached
\* the sum of all three; with 14, 45 and 60 the phase changes between 13 and
\* 14, between 58 and 59 and between 118 and 119.
C21_FirstCeilingAbove ==
    (pc = "done" /\ loaded # None /\ AllCeilingsSet(loaded.cfg)) =>
        LET d == loaded.days
            open == {i \in 1..(Len(PHASE_ORDER) - 1) : Ceiling(loaded.cfg, i) > d}
        IN /\ open = {} => result[1] = "mirror"
           /\ open # {} =>
                result[1] = PHASE_ORDER[CHOOSE i \in open : \A j \in open : i <= j]
           /\ loaded.cfg = PhasesCfg =>
                /\ d = 13 => result[1] = "emergence"
                /\ d = 14 => result[1] = "patterns"
                /\ d = 58 => result[1] = "patterns"
                /\ d = 59 => result[1] = "tension"
                /\ d = 118 => result[1] = "tension"
                /\ d = 119 => result[1] = "mirror"

\* the last day of patterns under the configuration of the tests
C21_Witness ==
    /\ pc = "done"
    /\ loaded # None
    /\ loaded.cfg = PhasesCfg
    /\ loaded.days = 58
    /\ result = <<"patterns">>


\* C22: next_narrative_day(d, F) is greater than d, is not in F, and every
\* integer between d and it is in F: it is the smallest integer above d
\* outside the forbidden set, whatever runs of consecutive days F holds.
C22_NextDayIsSmallestAllowed ==
    (pc = "done" /\ loaded # None) =>
        LET d == loaded.current_day
            F == loaded.forbidden_days
            next_day == result[1]
        IN /\ next_day > d
           /\ next_day \notin F
           /\ \A k \in (d + 1)..(next_day - 1) : k \in F

\* from day 2 over the forbidden run 3, 4, 5 to day 6
C22_Witness ==
    /\ pc = "done"
    /\ loaded # None
    /\ loaded.current_day = 2
    /\ loaded.forbidden_days = {3, 4, 5}
    /\ result = <<6>>


\* the conditions under which each candidate is in the option list
Candidates(options, context, st) ==
    /\ options # <<>>
    /\ \E i \in 1..Len(options) : options[i].type = "silence"
    /\ \A i \in 1..Len(options) :
         LET o == options[i]
         IN /\ o.type \in {"post", "comment", "upvote", "silence"}
            /\ o.type = "post" => st.posts_today < 3
            /\ o.type = "comment" =>
                 /\ context.reply_worthy_posts # <<>>
                 /\ st.comments_today < 20
                 /\ o.target_post \in Range(context.reply_worthy_posts)
            /\ o.type = "upvote" =>
                 /\ context.upvote_worthy_posts # <<>>
                 /\ o.target_post \in Range(context.upvote_worthy_posts)

\* C23: when mentions_me is empty, every option list decide can build is
\* non-empty, always holds a silence candidate, holds a post candidate only
\* if posts_today < 3, a comment candidate only if there are reply-worthy
\* posts and comments_today < 20 (targeting one of them) and an upvote
\* candidate only if there are upvote-worthy posts (targeting one of them);
\* the one action decide returns is an element of such a list.
C23_DecisionFromCandidates ==
    (pc = "done" /\ ctx.mentions_me = <<>>) =>
        /\ \A options \in OptionLists(ctx, state) : Candidates(options, ctx, state)
        /\ \E options \in OptionLists(ctx, state) : decided \in Range(options)

\* both daily limits reached, reply-worthy posts in the feed, and silence
\* chosen over the upvote
C23_Witness ==
    /\ pc = "done"
    /\ ctx.mentions_me = <<>>
    /\ ctx.reply_worthy_posts # <<>>
    /\ state.posts_today = 3
    /\ state.comments_today = 20
    /\ decided.type = "silence"


\* a process between the load of its cycle and its save
InCycle(p) == pc[p] \in {"running", "acted"}

\* C24: no two heartbeat cycles are between their load and their save at
\* the same time, whether the daemon loop or the console's run-once started
\* them.
C24_CyclesNeverOverlap ==
    \A p, q \in Runners : (InCycle(p) /\ InCycle(q)) => p = q


\* C25: the SELECT of the oldest pending row and the UPDATE that marks it
\* done are two steps, and the UPDATE does not look at the row's status: a
\* worker that selected a row is returned that row when it marks it, even
\* when the other worker has marked it done in between, so both workers can
\* be returned the same item.
C25_SelectedRowIsReturned ==
    [][\A c \in Claimants :
         (pc[c] = "selected" /\ pc'[c] = "returned") =>
             /\ outcome'[c] = loaded[c]
             /\ \A d \in Claimants \ {c} :
                  (pc[d] = "returned" /\ outcome[d] = loaded[c]) =>
                      outcome'[d] = outcome'[c]
      ]_vars

\* both workers hold the same item as the answer of their pop
C25_Witness ==
    /\ \A c \in Claimants : pc[c] = "returned"
    /\ outcome["thinker_a"] # None
    /\ outcome["thinker_a"] = outcome["thinker_b"]


\* the daily and total counters of an AgentState
Counters(st) ==
    <<st.posts_today, st.comments_today, st.total_posts, st.total_comments>>

\* C26: in a dry-run heartbeat the act step calls none of create_post,
\* create_comment and upvote_post and leaves posts_today, comments_today,
\* total_posts and total_comments as they were; no executor call is on the
\* heartbeat's trail at any point.
C26_DryRunCallsNothing ==
    [][/\ (dry_run /\ pc = "act" /\ pc' # "act") =>
            /\ exec'.call = "none"
            /\ trail' = trail
            /\ Counters(state') = Counters(state)
       /\ dry_run' => (Range(trail') \cap ExecutorCalls = {} /\ exec' = NoExec)
      ]_vars

\* a dry-run heartbeat that decided to post and has logged the dry-run post
C26_Witness ==
    /\ dry_run
    /\ pc = "persist"
    /\ action.type = "post"
    /\ result[1] = "dry_run_post:"
    /\ db.posts = 1


\* the UTC day the latest advance read: compute_actual_days_active gave
\* actual_days_active = now - start_date
AdvanceDate(st) == st.start_date + st.actual_days_active

\* C27: after every completed heartbeat the day counter has advanced once
\* for each UTC calendar day between the heartbeat that wrote the first
\* stored state and the latest heartbeat, also when a save has fallen on the
\* day after the clock reading of its advance.
C27_EveryDayAdvanced ==
    (state # None /\ file = state) =>
        file.current_day =
            NextDayTimes(loaded.current_day, AdvanceDate(file) - loaded.date)


C29_AtMostThreePostsADay ==
    /\ state # None => state.posts_today <= 3
    /\ file # None => file.posts_today <= 3

PendingCommands == {i \in 1..Len(cmds) : cmds[i].status = "pending"}

\* the command that was queued first among those still pending
OldestPendingCommand ==
    cmds[CHOOSE i \in PendingCommands : \A j \in PendingCommands : i <= j]

DecideStep == pc = "decide" /\ pc' = "act"

PersistStep == pc = "persist" /\ pc' = "done"

\* the commands this step marks done
NewlyDone == {i \in 1..Len(cmds) : cmds[i].status = "pending" /\ cmds'[i].status = "done"}

\* C32: operator commands are consumed in enqueue order, at most one per
\* heartbeat: a heartbeat fetches the oldest pending command (none when none
\* is pending) and never a command marked done; only the persist step of a
\* completed heartbeat marks a command done, and it marks exactly the
\* command the heartbeat fetched, which is still the oldest pending one; no
\* command is done while an older one is pending, and a done command stays
\* done.
C32_CommandsConsumedInOrder ==
    [][/\ DecideStep =>
            IF PendingCommands = {} THEN operator_cmd' = None
            ELSE operator_cmd' = OldestPendingCommand
       /\ Cardinality(NewlyDone) <= 1
       /\ NewlyDone # {} =>
            /\ PersistStep
            /\ \A i \in NewlyDone : cmds[i] = OldestPendingCommand
       /\ PersistStep =>
            NewlyDone = IF operator_cmd = None THEN {} ELSE {operator_cmd.id}
       /\ \A i \in 1..Len(cmds) :
            cmds[i].status = "done" => cmds'[i].status = "done"
       /\ \A i, j \in 1..Len(cmds') :
            i < j /\ cmds'[j].status = "done" => cmds'[i].status = "done"]_vars

\* the second heartbeat of the process has fetched the second command, the
\* first heartbeat having marked the first one done and left the second
\* pending
C32_Witness ==
    /\ pc = "act"
    /\ db.reasoning_trace = 1
    /\ Len(cmds) = 2
    /\ cmds[1].status = "done"
    /\ cmds[2].status = "pending"
    /\ operator_cmd = cmds[2]

\* C33: an influence command is marked done only by a heartbeat whose
\* executed action is the action produced by applying the command's
\* instruction to the base decision; a cycle whose action the pause flag
\* replaced by Silence marks no command done.
C33_DoneOnlyWhenApplied ==
    [][PersistStep =>
         \A i \in NewlyDone :
            cmds[i].mode = "influence" =>
              action = apply_operator_influence(decided, ctx, state,
                                                cmds[i].instruction)]_vars

\* ------------------------------------------------ reflection queue (C34, C35)
ThinkGateOpen ==
    /\ flag_enabled(pause_flag.thinker_enabled)
    /\ ~auto_queue_off(pause_flag.thinker_auto_queue)
    /\ StripLower(pause_flag.thinker_mode) = "queue"

\* C34: with one heartbeat process as the only enqueuer, never more than 5
\* reflection-queue items are pending; a row is added only by the enqueue
\* step of a heartbeat, one per cycle; a cycle reaches that step only from
\* its count of the pending rows, when that count is below 5, and it counts
\* only when it read the thinker enabled, auto-queue not off and the mode
\* queue.
C34_AtMostFivePending ==
    [][/\ PendingCount(db'.thinker_queue) <= 5
       /\ Len(db'.thinker_queue) <= Len(db.thinker_queue) + 1
       /\ Len(db'.thinker_queue) > Len(db.thinker_queue) =>
            /\ pc["heartbeat"] = "enqueue" /\ pc'["heartbeat"] = "done"
            /\ loaded["heartbeat"].pending < 5
            /\ PendingCount(db.thinker_queue) < 5
       /\ pc'["heartbeat"] = "enqueue" /\ pc["heartbeat"] # "enqueue" =>
            /\ pc["heartbeat"] = "count"
            /\ PendingCount(db.thinker_queue) < 5
       /\ pc'["heartbeat"] = "count" /\ pc["heartbeat"] # "count" =>
            /\ pc["heartbeat"] \in {"idle", "done"}
            /\ ThinkGateOpen]_vars

\* a cycle with the gate open and posts in its feed counted five pending
\* rows and ended without enqueueing
C34_Witness ==
    /\ pc["heartbeat"] = "done"
    /\ loaded["heartbeat"] # None
    /\ loaded["heartbeat"].pending = 5
    /\ QueuePosts(ctx) # <<>>
    /\ PendingCount(db.thinker_queue) = 5

ThinkerStep == pc'["thinker"] # pc["thinker"]

\* C35: while the thinker_enabled flag is off, no step of the background
\* thinker changes the status of a pending reflection-queue item.
C35_DisabledThinkerLeavesQueue ==
    [][ThinkerStep /\ ~flag_enabled(pause_flag.thinker_enabled)
       => \A i \in 1..Len(db.thinker_queue) :
            db.thinker_queue[i].status = "pending"
            => db'.thinker_queue[i].status = "pending"]_vars

\* ------------------------------------------------ repeated mentions (C36)
\* a comment on p1 went out in an earlier heartbeat of the run: in
\* SpecMention every comment is the answer to the mention n1
MentionAnswered == db.comments >= 1

ActStep == pc = "act" /\ pc' # "act"

CountersMoved(posts, comments) ==
    /\ state'.posts_today = state.posts_today + posts
    /\ state'.total_posts = state.total_posts + posts
    /\ state'.comments_today = state.comments_today + comments
    /\ state'.total_comments = state.total_comments + comments

\* C37: a successful create_post adds exactly 1 to posts_today and to
\* total_posts and leaves comments_today and total_comments as they were; a
\* successful create_comment adds exactly 1 to comments_today and to
\* total_comments and leaves the post counters as they were; an upvote, a
\* silence, a comment or upvote without target and an action of unknown
\* type leave all four counters as they were.
C37_CountersFollowWrites ==
    [][ActStep =>
         /\ exec'.call = "create_post" /\ exec'.outcome = "ok" => CountersMoved(1, 0)
         /\ exec'.call = "create_comment" /\ exec'.outcome = "ok" => CountersMoved(0, 1)
         /\ \/ action.type \in {"upvote", "silence"}
            \/ result' \in {<<"no_target">>, <<"unknown">>}
            => CountersMoved(0, 0)]_vars

\* a comment went out and is counted on top of the comments of the day
C37_Witness ==
    /\ pc = "persist"
    /\ exec = [call |-> "create_comment", outcome |-> "ok"]
    /\ state.comments_today >= 2
    /\ state.total_comments >= state.comments_today

\* ------------------------------------------------ the weighted choice (C38)
\* the place of a candidate in the order the options are appended
BuildRank(type) ==
    CASE type = "post" -> 1 [] type = "comment" -> 2 [] type = "upvote" -> 3
      [] OTHER -> 4

\* b has the highest final score of the list and, among the candidates of
\* that score, was built first
FirstOfMaximalScore(b, options) ==
    /\ \E i \in 1..Len(options) : options[i] = b
    /\ \A j \in 1..Len(options) :
         /\ options[j].score <= b.score
         /\ options[j].score = b.score => BuildRank(b.type) <= BuildRank(options[j].type)
    /\ \A i, j \in 1..Len(options) :
         i < j => BuildRank(options[i].type) < BuildRank(options[j].type)

\* C38: on the weighted path (no mention) the action decide has returned,
\* seen before the act step changes the state, is for an option list it
\* can build the candidate whose score after the chaos jitter is the
\* maximum of the list, and among candidates sharing that maximum the one
\* built earliest in the order post, comment, upvote, silence; this holds
\* of every option list decide can build.
C38_HighestScoreFirstBuilt ==
    (pc = "act" /\ ctx.mentions_me = <<>>) =>
        /\ \A options \in OptionLists(ctx, state) :
             FirstOfMaximalScore(Best(options), options)
        /\ \E options \in OptionLists(ctx, state) :
             /\ decided = Best(options)
             /\ FirstOfMaximalScore(decided, options)

\* decide returned the post candidate of a list in which the comment
\* candidate had the same final score
C38_Witness ==
    /\ pc = "act"
    /\ ctx.mentions_me = <<>>
    /\ decided.type = "post"
    /\ \E options \in OptionLists(ctx, state) :
         /\ decided = Best(options)
         /\ \E j \in 1..Len(options) :
              options[j].type = "comment" /\ options[j].score = decided.score

\* ------------------------------------------------ classification (C39, C40)
Classified == pc = "done" /\ loaded # None

TextOf(post) == post.title \o post.content

TermHits(terms, text) == Cardinality({t \in terms : Contains(text, t)})

\* C39: a text is classified suspicious exactly when it has the
\* high-risk-phrase flag, or the command-block flag together with the
\* coercive-actions flag or the target-id flag, or at least 3 of the six
\* flags; every other combination is safe.  The coercive-actions flag
\* stands for 2 or more coercive terms and the panic flag for 3 or more
\* panic terms, and a post of the feed lands in suspicious_posts exactly
\* when its text is classified suspicious.
C39_SuspiciousByFlags ==
    Classified =>
        LET flags == result[1]
            text == TextOf(loaded)
        IN /\ flags \subseteq {"high_risk_phrase", "coercive_actions", "panic_language",
                               "scam_hashtags", "json_command_block",
                               "target_id_payload"}
           /\ "coercive_actions" \in flags <=> TermHits(COERCIVE_ACTION_TERMS, text) >= 2
           /\ "panic_language" \in flags <=> TermHits(PANIC_TERMS, text) >= 3
           /\ result[2] <=>
                \/ "high_risk_phrase" \in flags
                \/ /\ "json_command_block" \in flags
                   /\ "coercive_actions" \in flags \/ "target_id_payload" \in flags
                \/ Cardinality(flags) >= 3
           /\ result[2] <=> ctx.suspicious_posts = <<loaded>>

\* a text with the coercive-actions, panic and scam-hashtag flags, without
\* high-risk phrase and without command block, is suspicious
C39_Witness ==
    /\ Classified
    /\ result[1] = {"coercive_actions", "panic_language", "scam_hashtags"}
    /\ result[2] = TRUE
    /\ ctx.suspicious_posts = <<loaded>>

\* C40: a safe post none of whose text holds a thematic keyword has
\* relevance score 0 whatever its upvote and comment counts, and is in none
\* of interesting_posts, reply_worthy_posts and upvote_worthy_posts.
C40_NoKeywordNoRank ==
    (Classified /\ ~result[2] /\ TermHits(RELEVANT_KEYWORDS, TextOf(loaded)) = 0)
        => /\ result[3] = 0
           /\ loaded \notin Ranked(ctx)

\* a safe post without keyword, with 40 upvotes and no comment, scored 0 and
\* ranked nowhere
C40_Witness ==
    /\ Classified
    /\ ~result[2]
    /\ loaded.title = <<"weather update">>
    /\ TermHits(RELEVANT_KEYWORDS, TextOf(loaded)) = 0
    /\ loaded.upvotes = 40
    /\ loaded.comment_count = 0
    /\ result[3] = 0
    /\ Ranked(ctx) = {}

====
